---- MODULE Spec2Model ----
(***************************************************************************)
(* Gene search and data retrieval layer of the long-read RNA-seq dashboard *)
(* (app/utils/db_utils.py, with the callers in app/callbacks.py) and the   *)
(* transcript ordering of app/utils/polars_utils.py, and the gene search    *)
(* callback of app/tabs/tab2.py.                                           *)
(*                                                                         *)
(* Strings are sequences of one-character strings, so that lower-casing,  *)
(* prefix and substring tests, LIKE patterns, labels and cache keys are    *)
(* computed the way the code computes them.                                *)
(***************************************************************************)
EXTENDS Integers, Sequences, FiniteSets, Bags, TLC

VARIABLES
    transcript_annotation,  \* rows <<gene_id, gene_name>> of the annotation table, in heap order
    POLARS_AVAILABLE,       \* db_utils.POLARS_AVAILABLE, fixed at import
    ALL_GENES,              \* db_utils.ALL_GENES
    GENE_INDEX_LOADED,      \* db_utils.GENE_INDEX_LOADED
    GENE_INDEX_LOADING,     \* db_utils.GENE_INDEX_LOADING
    GENE_INFO_CACHE,        \* db_utils.GENE_INFO_CACHE: the gene ids that have an entry
    MATRIX_DATA_CACHE,      \* db_utils.MATRIX_DATA_CACHE: set of <<cache_key, frame>>
    SEARCH_RESULTS_CACHE,   \* db_utils.SEARCH_RESULTS_CACHE
    thread,                 \* the bag of running loader threads, each [pc, raw]
    caller,                 \* the request handler running search_genes: [pc, arg, result, path, dbq, load]
    lastCall,               \* history: the last get_gene_data_with_metadata call or callback run
    returned,               \* history: <<args, frame>> returned since the last clear_cache
    ordering,               \* history: the last order_transcripts_by_expression call and its outcome
    dropdown,               \* history: the last get_matrix_dropdown_options call and its outcome
    last_valid_options,     \* tab2.last_valid_options
    last_search_value,      \* tab2.last_search_value
    session                 \* history: the last update_search_options call and its outcome

vars == <<transcript_annotation, POLARS_AVAILABLE, ALL_GENES, GENE_INDEX_LOADED,
          GENE_INDEX_LOADING, GENE_INFO_CACHE, MATRIX_DATA_CACHE, SEARCH_RESULTS_CACHE,
          thread, caller, lastCall, returned, ordering,
          dropdown, last_valid_options, last_search_value, session>>

indexVars == <<ALL_GENES, GENE_INDEX_LOADED, GENE_INDEX_LOADING, thread, caller>>
dataVars  == <<GENE_INFO_CACHE, MATRIX_DATA_CACHE, lastCall, returned>>
orderVars == <<ordering>>
tableVars == <<dropdown>>
tab2Vars  == <<last_valid_options, last_search_value, session>>

----------------------------------------------------------------------------
(* Bounds and program constants *)

MaxThreads == 2          \* loader threads that can exist at the same time in the model
MAX_RESULTS == 10        \* the literal 10 of search_genes and of LIMIT 10
SHORT_QUERY_LEN == 3     \* len(search_value) < 3 in _search_genes_database
MAX_ROWS == 50           \* max_rows of update_matrix_content

----------------------------------------------------------------------------
(* Strings *)

\* str.lower() / SQL LOWER() on the characters the model uses
LowerChar(c) ==
    CASE c = "A" -> "a" [] c = "E" -> "e" [] c = "G" -> "g" [] c = "N" -> "n"
      [] c = "O" -> "o" [] c = "P" -> "p" [] c = "R" -> "r" [] c = "S" -> "s"
      [] c = "X" -> "x" [] OTHER -> c

Lower(s) == [i \in 1..Len(s) |-> LowerChar(s[i])]

\* str.startswith
StartsWith(s, q) == Len(q) <= Len(s) /\ SubSeq(s, 1, Len(q)) = q

\* q in s
Contains(s, q) == \E i \in 0..(Len(s) - Len(q)) : SubSeq(s, i + 1, i + Len(q)) = q

\* SQL  s LIKE p : % matches any run of characters, _ matches one character
RECURSIVE LikeMatch(_, _)
LikeMatch(s, p) ==
    IF p = <<>> THEN s = <<>>
    ELSE IF Head(p) = "%"
         THEN LikeMatch(s, Tail(p)) \/ (s # <<>> /\ LikeMatch(Tail(s), p))
         ELSE s # <<>> /\ (Head(p) = "_" \/ Head(p) = Head(s)) /\ LikeMatch(Tail(s), Tail(p))

\* collation used by ORDER BY gene_name: code point order
Collation == <<" ", "(", ")", "0", "1", "2", "3", "4", "5", "6", "7", "8", "9",
               "A", "E", "G", "N", "O", "P", "R", "S", "X", "_",
               "a", "c", "d", "e", "f", "g", "h", "i", "l", "n", "o", "p", "q", "r",
               "s", "t", "u", "x">>

CharRank(c) == CHOOSE i \in 1..Len(Collation) : Collation[i] = c

RECURSIVE StrLess(_, _)
StrLess(a, b) ==
    IF b = <<>> THEN FALSE
    ELSE IF a = <<>> THEN TRUE
    ELSE IF Head(a) = Head(b) THEN StrLess(Tail(a), Tail(b))
    ELSE CharRank(Head(a)) < CharRank(Head(b))

----------------------------------------------------------------------------
(* Sequences *)

Take(s, n) == SubSeq(s, 1, IF n < Len(s) THEN n ELSE Len(s))

Reverse(s) == [i \in 1..Len(s) |-> s[Len(s) + 1 - i]]

SeqRange(s) == {s[i] : i \in 1..Len(s)}

RECURSIVE SelectRows(_, _, _)
\* the rows r of s with keep[r], in the order of s  (a WHERE clause)
SelectRows(s, keep, i) ==
    IF i > Len(s) THEN <<>>
    ELSE (IF keep[s[i]] THEN <<s[i]>> ELSE <<>>) \o SelectRows(s, keep, i + 1)

RECURSIVE DistinctRows(_, _, _)
\* SELECT DISTINCT: every row once, in the order of first occurrence in s
DistinctRows(s, seen, i) ==
    IF i > Len(s) THEN <<>>
    ELSE IF s[i] \in seen THEN DistinctRows(s, seen, i + 1)
    ELSE <<s[i]>> \o DistinctRows(s, seen \cup {s[i]}, i + 1)

\* stable insertion sort of s under the strict order less[<<r1, r2>>]
\* (ORDER BY keeps rows with equal keys in scan order)
RECURSIVE InsertRow(_, _, _)
InsertRow(r, s, less) ==
    IF s = <<>> THEN <<r>>
    ELSE IF less[<<r, Head(s)>>] THEN <<r>> \o s
    ELSE <<Head(s)>> \o InsertRow(r, Tail(s), less)

RECURSIVE SortRows(_, _)
SortRows(s, less) ==
    IF s = <<>> THEN <<>>
    ELSE InsertRow(s[Len(s)], SortRows(SubSeq(s, 1, Len(s) - 1), less), less)

----------------------------------------------------------------------------
(* The annotation table: the inputs of the model *)

ENSG1 == <<"E", "N", "S", "G", "1">>
ENSG2 == <<"E", "N", "S", "G", "2">>
ENSG3 == <<"E", "N", "S", "G", "3">>
AP == <<"A", "P">>
APOE == <<"A", "P", "O", "E">>
APOER2 == <<"A", "P", "O", "E", "R", "2">>
XAP == <<"X", "A", "P">>
XAPOE == <<"X", "A", "P", "O", "E">>

\* two genes, one row per transcript
TablePair == << <<ENSG2, APOER2>>, <<ENSG1, APOE>>, <<ENSG1, APOE>> >>

\* ENSG1 carries two names; ENSG3 is named like the prefix of the others
TableNames == << <<ENSG1, APOE>>, <<ENSG2, APOER2>>, <<ENSG1, AP>>, <<ENSG3, AP>>, <<ENSG3, XAPOE>> >>

\* thirteen genes: eleven named AP, one APOE, one XAP
ManyIds == <<"0", "1", "2", "3", "4", "5", "6", "7", "8", "9", "A", "E", "X">>
TableMany == [i \in 1..13 |-> << <<"E", "N", "S", "G", ManyIds[i]>>,
                                 IF i = 12 THEN APOE ELSE IF i = 13 THEN XAP ELSE AP >>]

Tables == {TablePair, TableNames, TableMany, <<>>}

\* an unordered scan returns the rows in heap order or in the opposite order
ScanOrders(table) == {table, Reverse(table)}

NameLess(rows) == [p \in rows \X rows |-> StrLess(p[1][2], p[2][2])]

\* SELECT DISTINCT gene_id, gene_name FROM transcript_annotation ORDER BY gene_name
IndexQuery(scan) == SortRows(DistinctRows(scan, {}, 1), NameLess(SeqRange(scan)))

RECURSIVE DedupById(_, _, _)
\* gene_dict: the first row of every gene_id, in the order of insertion
DedupById(raw, ids, i) ==
    IF i > Len(raw) THEN <<>>
    ELSE IF raw[i][1] \in ids THEN DedupById(raw, ids, i + 1)
    ELSE <<raw[i]>> \o DedupById(raw, ids \cup {raw[i][1]}, i + 1)

\* gene_dict[gene_id] = gene_name for every row: the last name of an id wins
GeneList_LastName(raw) == Reverse(DedupById(Reverse(raw), {}, 1))

GeneList(raw) == DedupById(raw, {}, 1)

----------------------------------------------------------------------------
(* search_genes: the ranking over the in-memory index *)

\* {'label': f"{gene_name} ({gene_id})", 'value': gene_id}
Option(row) == [label |-> row[2] \o <<" ", "(">> \o row[1] \o <<")">>, value |-> row[1]]

Options(rows) == [i \in 1..Len(rows) |-> Option(rows[i])]

\* the loop body comparing gene_id and gene_name as stored, without .lower()
Categorize_CaseSensitive(acc, row, q) ==
    IF row[1] = q \/ row[2] = q
    THEN [acc EXCEPT !.exact = Append(@, row)]
    ELSE IF StartsWith(row[1], q) \/ StartsWith(row[2], q)
    THEN [acc EXCEPT !.prefix = Append(@, row)]
    ELSE IF Contains(row[1], q) \/ Contains(row[2], q)
    THEN [acc EXCEPT !.contains = Append(@, row)]
    ELSE acc

\* one iteration of the loop of search_genes: the gene goes to at most one list
Categorize(acc, row, q) ==
    LET lower_id == Lower(row[1])
        lower_name == Lower(row[2])
    IN  IF lower_id = q \/ lower_name = q
        THEN [acc EXCEPT !.exact = Append(@, row)]
        ELSE IF StartsWith(lower_id, q) \/ StartsWith(lower_name, q)
        THEN [acc EXCEPT !.prefix = Append(@, row)]
        ELSE IF Contains(lower_id, q) \/ Contains(lower_name, q)
        THEN [acc EXCEPT !.contains = Append(@, row)]
        ELSE acc

RECURSIVE ScanGenes_StopAtFirstExact(_, _, _, _)
\* the first pass, left at the first exact match
ScanGenes_StopAtFirstExact(genes, q, i, acc) ==
    IF i > Len(genes) THEN acc
    ELSE LET next == Categorize(acc, genes[i], q)
         IN  IF Len(next.exact) >= 1 THEN next
             ELSE ScanGenes_StopAtFirstExact(genes, q, i + 1, next)

RECURSIVE ScanGenes(_, _, _, _)
\* the first pass, left as soon as there are MAX_RESULTS exact matches
ScanGenes(genes, q, i, acc) ==
    IF i > Len(genes) THEN acc
    ELSE LET next == Categorize(acc, genes[i], q)
         IN  IF Len(next.exact) >= MAX_RESULTS THEN next
             ELSE ScanGenes(genes, q, i + 1, next)

\* exact, then prefix, then contains, each list cut to the room that is left
CombineMatches(m) ==
    LET r1 == m.exact
        r2 == IF Len(r1) < MAX_RESULTS THEN r1 \o Take(m.prefix, MAX_RESULTS - Len(r1)) ELSE r1
        r3 == IF Len(r2) < MAX_RESULTS THEN r2 \o Take(m.contains, MAX_RESULTS - Len(r2)) ELSE r2
    IN  r3

SearchMemory(genes, search_value) ==
    LET q == Lower(search_value)
        m == ScanGenes(genes, q, 1, [exact |-> <<>>, prefix |-> <<>>, contains |-> <<>>])
    IN  Options(Take(CombineMatches(m), MAX_RESULTS))

----------------------------------------------------------------------------
(* _search_genes_database: the two SQL queries *)

\* WHERE LOWER(gene_id) LIKE :p OR LOWER(gene_name) LIKE :p
LikeEither(rows, p) == [r \in rows |-> LikeMatch(Lower(r[1]), p) \/ LikeMatch(Lower(r[2]), p)]

\* the short query without its LIMIT clause
ShortQuery_NoLimit(scan, search_value) ==
    LET prefix == Lower(search_value) \o <<"%">>
    IN  DistinctRows(SelectRows(scan, LikeEither(SeqRange(scan), prefix), 1), {}, 1)

\* SELECT DISTINCT gene_id, gene_name ... LIKE :prefix ... LIMIT 10   (no ORDER BY)
ShortQuery(scan, search_value) ==
    LET prefix == Lower(search_value) \o <<"%">>
    IN  Take(DistinctRows(SelectRows(scan, LikeEither(SeqRange(scan), prefix), 1), {}, 1),
             MAX_RESULTS)

\* the CASE expression of ranked_results
MatchRank(row, search_value) ==
    LET exact == Lower(search_value)
        prefix == Lower(search_value) \o <<"%">>
    IN  IF Lower(row[1]) = exact THEN 1
        ELSE IF Lower(row[2]) = exact THEN 2
        ELSE IF LikeMatch(Lower(row[1]), prefix) THEN 3
        ELSE IF LikeMatch(Lower(row[2]), prefix) THEN 4
        ELSE 5

\* ORDER BY match_rank, gene_name
RankLess(rows, search_value) ==
    [p \in rows \X rows |->
        LET k1 == MatchRank(p[1], search_value)
            k2 == MatchRank(p[2], search_value)
        IN  k1 < k2 \/ (k1 = k2 /\ StrLess(p[1][2], p[2][2]))]

\* WITH ranked_results AS (SELECT DISTINCT ...) ... ORDER BY match_rank, gene_name LIMIT 10
RankedQuery(scan, search_value) ==
    LET pattern == <<"%">> \o Lower(search_value) \o <<"%">>
        ranked == DistinctRows(SelectRows(scan, LikeEither(SeqRange(scan), pattern), 1), {}, 1)
    IN  Take(SortRows(ranked, RankLess(SeqRange(scan), search_value)), MAX_RESULTS)

SearchDatabase(scan, search_value) ==
    IF Len(search_value) < SHORT_QUERY_LEN
    THEN Options(ShortQuery(scan, search_value))
    ELSE Options(RankedQuery(scan, search_value))

\* what search_genes can return for a query over a gene list and a table
SearchResults(genes, annotation, search_value) ==
    IF genes # <<>>
    THEN {SearchMemory(genes, search_value)}
    ELSE {SearchDatabase(scan, search_value) : scan \in ScanOrders(annotation)} \cup {<<>>}

----------------------------------------------------------------------------
(* Arguments of search_genes *)

NoneArg == [kind |-> "none", text |-> <<>>]
StrArg(t) == [kind |-> "str", text |-> t]

QueryTexts == { <<>>, <<"A", "P">>, <<"a", "_">>, <<"a", "p", "o", "e">>,
                <<"E", "N", "S", "G">> }

QueryArgs == {NoneArg} \cup {StrArg(t) : t \in QueryTexts}

\* previous_search: the default None or the text of the search before
PreviousSearches == {NoneArg, StrArg(<<"A", "P">>)}

\* search_value is None: only None is turned away, not the empty string
Falsy_NoneOnly(arg) == arg.kind = "none"

\* not search_value
Falsy(arg) == arg.kind = "none" \/ arg.text = <<>>

\* a loader thread right after thread.start()
NewThread == [pc |-> "start", raw |-> <<>>]

\* the thread th of the bag takes a step and becomes th2
StepThread(th, th2) == (thread (-) SetToBag({th})) (+) SetToBag({th2})

\* load records what _load_gene_index did in the call: "none" (not entered or
\* index found loaded), "waited", "ok" or "failed" (its own query)
IdleCaller == [pc |-> "idle", arg |-> NoneArg, result |-> <<>>,
               path |-> "none", dbq |-> 0, load |-> "none"]

----------------------------------------------------------------------------
(* _load_gene_index_thread and start_async_gene_index_load *)

\* start_async_gene_index_load: the flags are read here, the loading flag is
\* set by the new thread, once it runs
StartAsync ==
    /\ ~(GENE_INDEX_LOADED \/ GENE_INDEX_LOADING)
    /\ BagCardinality(thread) < MaxThreads
    /\ thread' = thread (+) SetToBag({NewThread})
    /\ UNCHANGED <<transcript_annotation, POLARS_AVAILABLE, ALL_GENES, GENE_INDEX_LOADED,
                   GENE_INDEX_LOADING, SEARCH_RESULTS_CACHE, caller>>
    /\ UNCHANGED dataVars
    /\ UNCHANGED orderVars
    /\ UNCHANGED tableVars
    /\ UNCHANGED tab2Vars

\* GENE_INDEX_LOADING = True
LoaderSetLoading(th) ==
    /\ th.pc = "start"
    /\ GENE_INDEX_LOADING' = TRUE
    /\ thread' = StepThread(th, [th EXCEPT !.pc = "query"])
    /\ UNCHANGED <<transcript_annotation, POLARS_AVAILABLE, ALL_GENES, GENE_INDEX_LOADED,
                   SEARCH_RESULTS_CACHE, caller>>
    /\ UNCHANGED dataVars
    /\ UNCHANGED orderVars
    /\ UNCHANGED tableVars
    /\ UNCHANGED tab2Vars

\* all_genes_raw = conn.execute(query).fetchall()
LoaderQuery(th) ==
    /\ th.pc = "query"
    /\ \E scan \in ScanOrders(transcript_annotation) :
         thread' = StepThread(th, [pc |-> "publish", raw |-> IndexQuery(scan)])
    /\ UNCHANGED <<transcript_annotation, POLARS_AVAILABLE, ALL_GENES, GENE_INDEX_LOADED,
                   GENE_INDEX_LOADING, SEARCH_RESULTS_CACHE, caller>>
    /\ UNCHANGED dataVars
    /\ UNCHANGED orderVars
    /\ UNCHANGED tableVars
    /\ UNCHANGED tab2Vars

\* the connection or the query raises
LoaderQueryFails(th) ==
    /\ th.pc = "query"
    /\ thread' = StepThread(th, [th EXCEPT !.pc = "except"])
    /\ UNCHANGED <<transcript_annotation, POLARS_AVAILABLE, ALL_GENES, GENE_INDEX_LOADED,
                   GENE_INDEX_LOADING, SEARCH_RESULTS_CACHE, caller>>
    /\ UNCHANGED dataVars
    /\ UNCHANGED orderVars
    /\ UNCHANGED tableVars
    /\ UNCHANGED tab2Vars

\* ALL_GENES = [(gene_id, gene_name) for ... in gene_dict.items()]
LoaderPublish(th) ==
    /\ th.pc = "publish"
    /\ ALL_GENES' = GeneList(th.raw)
    /\ thread' = StepThread(th, [pc |-> "loaded", raw |-> <<>>])
    /\ UNCHANGED <<transcript_annotation, POLARS_AVAILABLE, GENE_INDEX_LOADED,
                   GENE_INDEX_LOADING, SEARCH_RESULTS_CACHE, caller>>
    /\ UNCHANGED dataVars
    /\ UNCHANGED orderVars
    /\ UNCHANGED tableVars
    /\ UNCHANGED tab2Vars

\* GENE_INDEX_LOADED = True
LoaderSetLoaded(th) ==
    /\ th.pc = "loaded"
    /\ GENE_INDEX_LOADED' = TRUE
    /\ thread' = StepThread(th, [th EXCEPT !.pc = "finally"])
    /\ UNCHANGED <<transcript_annotation, POLARS_AVAILABLE, ALL_GENES,
                   GENE_INDEX_LOADING, SEARCH_RESULTS_CACHE, caller>>
    /\ UNCHANGED dataVars
    /\ UNCHANGED orderVars
    /\ UNCHANGED tableVars
    /\ UNCHANGED tab2Vars

\* except: ALL_GENES = []
LoaderExcept(th) ==
    /\ th.pc = "except"
    /\ ALL_GENES' = <<>>
    /\ thread' = StepThread(th, [th EXCEPT !.pc = "failed"])
    /\ UNCHANGED <<transcript_annotation, POLARS_AVAILABLE, GENE_INDEX_LOADED,
                   GENE_INDEX_LOADING, SEARCH_RESULTS_CACHE, caller>>
    /\ UNCHANGED dataVars
    /\ UNCHANGED orderVars
    /\ UNCHANGED tableVars
    /\ UNCHANGED tab2Vars

\* the flag reset at the end of the try block only: the thread that went
\* through the except branch ends without resetting it
LoaderFinally_SuccessOnly(th) ==
    /\ th.pc \in {"finally", "failed"}
    /\ GENE_INDEX_LOADING' = IF th.pc = "failed" THEN GENE_INDEX_LOADING ELSE FALSE
    /\ thread' = thread (-) SetToBag({th})
    /\ UNCHANGED <<transcript_annotation, POLARS_AVAILABLE, ALL_GENES, GENE_INDEX_LOADED,
                   SEARCH_RESULTS_CACHE, caller>>
    /\ UNCHANGED dataVars
    /\ UNCHANGED orderVars
    /\ UNCHANGED tableVars
    /\ UNCHANGED tab2Vars

\* the thread ending without the assignment of the finally block
LoaderFinally_NoReset(th) ==
    /\ th.pc \in {"finally", "failed"}
    /\ thread' = thread (-) SetToBag({th})
    /\ UNCHANGED <<transcript_annotation, POLARS_AVAILABLE, ALL_GENES, GENE_INDEX_LOADED,
                   GENE_INDEX_LOADING, SEARCH_RESULTS_CACHE, caller>>
    /\ UNCHANGED dataVars
    /\ UNCHANGED orderVars
    /\ UNCHANGED tableVars
    /\ UNCHANGED tab2Vars

\* finally: GENE_INDEX_LOADING = False; the thread ends (pc "failed" when the
\* except branch ran before it)
LoaderFinally(th) ==
    /\ th.pc \in {"finally", "failed"}
    /\ GENE_INDEX_LOADING' = FALSE
    /\ thread' = thread (-) SetToBag({th})
    /\ UNCHANGED <<transcript_annotation, POLARS_AVAILABLE, ALL_GENES, GENE_INDEX_LOADED,
                   SEARCH_RESULTS_CACHE, caller>>
    /\ UNCHANGED dataVars
    /\ UNCHANGED orderVars
    /\ UNCHANGED tableVars
    /\ UNCHANGED tab2Vars

----------------------------------------------------------------------------
(* search_genes with _load_gene_index, one step per read or write of the *)
(* shared index state                                                    *)

\* if not search_value: return []  /  if not GENE_INDEX_LOADED: _load_gene_index()
\* (previous_search is accepted and not read)
SearchBegin(arg, previous_search) ==
    /\ caller.pc = "idle"
    /\ caller' = IF Falsy(arg)
                 THEN [IdleCaller EXCEPT !.arg = arg, !.path = "empty"]
                 ELSE [IdleCaller EXCEPT !.arg = arg,
                                         !.pc = IF GENE_INDEX_LOADED THEN "search" ELSE "load"]
    /\ UNCHANGED <<transcript_annotation, POLARS_AVAILABLE, ALL_GENES, GENE_INDEX_LOADED,
                   GENE_INDEX_LOADING, SEARCH_RESULTS_CACHE, thread>>
    /\ UNCHANGED dataVars
    /\ UNCHANGED orderVars
    /\ UNCHANGED tableVars
    /\ UNCHANGED tab2Vars

\* _load_gene_index: the two tests on the flags
LoadCheck ==
    /\ caller.pc = "load"
    /\ caller' = [caller EXCEPT !.pc = IF GENE_INDEX_LOADED THEN "search"
                                       ELSE IF GENE_INDEX_LOADING THEN "wait"
                                       ELSE "sync_query"]
    /\ UNCHANGED <<transcript_annotation, POLARS_AVAILABLE, ALL_GENES, GENE_INDEX_LOADED,
                   GENE_INDEX_LOADING, SEARCH_RESULTS_CACHE, thread>>
    /\ UNCHANGED dataVars
    /\ UNCHANGED orderVars
    /\ UNCHANGED tableVars
    /\ UNCHANGED tab2Vars

\* while GENE_INDEX_LOADING: time.sleep(0.1)
LoadWait ==
    /\ caller.pc = "wait"
    /\ ~GENE_INDEX_LOADING
    /\ caller' = [caller EXCEPT !.pc = "search", !.load = "waited"]
    /\ UNCHANGED <<transcript_annotation, POLARS_AVAILABLE, ALL_GENES, GENE_INDEX_LOADED,
                   GENE_INDEX_LOADING, SEARCH_RESULTS_CACHE, thread>>
    /\ UNCHANGED dataVars
    /\ UNCHANGED orderVars
    /\ UNCHANGED tableVars
    /\ UNCHANGED tab2Vars

\* the synchronous load: all_genes_raw = conn.execute(query).fetchall(); the
\* rows are kept in locals of _load_gene_index only
SyncQuery ==
    /\ caller.pc = "sync_query"
    /\ caller' = [caller EXCEPT !.pc = "sync_loaded", !.dbq = @ + 1]
    /\ UNCHANGED <<transcript_annotation, POLARS_AVAILABLE, ALL_GENES, GENE_INDEX_LOADED,
                   GENE_INDEX_LOADING, SEARCH_RESULTS_CACHE, thread>>
    /\ UNCHANGED dataVars
    /\ UNCHANGED orderVars
    /\ UNCHANGED tableVars
    /\ UNCHANGED tab2Vars

\* the synchronous load raises and nothing catches it: the exception leaves
\* _load_gene_index and search_genes
SyncQueryFails_Propagates ==
    /\ caller.pc = "sync_query"
    /\ caller' = [caller EXCEPT !.pc = "raised", !.dbq = @ + 1, !.load = "failed"]
    /\ UNCHANGED <<transcript_annotation, POLARS_AVAILABLE, ALL_GENES, GENE_INDEX_LOADED,
                   GENE_INDEX_LOADING, SEARCH_RESULTS_CACHE, thread>>
    /\ UNCHANGED dataVars
    /\ UNCHANGED orderVars
    /\ UNCHANGED tableVars
    /\ UNCHANGED tab2Vars

\* the synchronous load raises: the except branch assigns the local ALL_GENES
SyncQueryFails ==
    /\ caller.pc = "sync_query"
    /\ caller' = [caller EXCEPT !.pc = "search", !.dbq = @ + 1, !.load = "failed"]
    /\ UNCHANGED <<transcript_annotation, POLARS_AVAILABLE, ALL_GENES, GENE_INDEX_LOADED,
                   GENE_INDEX_LOADING, SEARCH_RESULTS_CACHE, thread>>
    /\ UNCHANGED dataVars
    /\ UNCHANGED orderVars
    /\ UNCHANGED tableVars
    /\ UNCHANGED tab2Vars

\* ALL_GENES = [...] binds a local name of _load_gene_index (the function
\* declares only the two flags global); GENE_INDEX_LOADED = True is global
SyncSetLoaded ==
    /\ caller.pc = "sync_loaded"
    /\ GENE_INDEX_LOADED' = TRUE
    /\ caller' = [caller EXCEPT !.pc = "search", !.load = "ok"]
    /\ UNCHANGED <<transcript_annotation, POLARS_AVAILABLE, ALL_GENES,
                   GENE_INDEX_LOADING, SEARCH_RESULTS_CACHE, thread>>
    /\ UNCHANGED dataVars
    /\ UNCHANGED orderVars
    /\ UNCHANGED tableVars
    /\ UNCHANGED tab2Vars

\* the search keeping every answer in SEARCH_RESULTS_CACHE
SearchFinish_StoresResult ==
    /\ caller.pc = "search"
    /\ IF ALL_GENES = <<>>
       THEN \/ \E scan \in ScanOrders(transcript_annotation) :
                 caller' = [caller EXCEPT !.pc = "idle", !.path = "database",
                                          !.dbq = @ + 1,
                                          !.result = SearchDatabase(scan, caller.arg.text)]
            \/ caller' = [caller EXCEPT !.pc = "idle", !.path = "dberror",
                                        !.dbq = @ + 1, !.result = <<>>]
       ELSE caller' = [caller EXCEPT !.pc = "idle", !.path = "memory",
                                     !.result = SearchMemory(ALL_GENES, caller.arg.text)]
    /\ SEARCH_RESULTS_CACHE' = SEARCH_RESULTS_CACHE \cup {<<caller.arg.text, caller'.result>>}
    /\ UNCHANGED <<transcript_annotation, POLARS_AVAILABLE, ALL_GENES, GENE_INDEX_LOADED,
                   GENE_INDEX_LOADING, thread>>
    /\ UNCHANGED dataVars
    /\ UNCHANGED orderVars
    /\ UNCHANGED tableVars
    /\ UNCHANGED tab2Vars

\* the search answering a query it has seen before from SEARCH_RESULTS_CACHE
SearchFinish_Memoized ==
    /\ caller.pc = "search"
    /\ IF \E e \in SEARCH_RESULTS_CACHE : e[1] = caller.arg.text
       THEN /\ caller' = [caller EXCEPT !.pc = "idle", !.path = "memory",
                             !.result = (CHOOSE e \in SEARCH_RESULTS_CACHE :
                                            e[1] = caller.arg.text)[2]]
            /\ UNCHANGED SEARCH_RESULTS_CACHE
       ELSE /\ caller' = [caller EXCEPT !.pc = "idle", !.path = "memory",
                             !.result = SearchMemory(ALL_GENES, caller.arg.text)]
            /\ SEARCH_RESULTS_CACHE' =
                   SEARCH_RESULTS_CACHE \cup {<<caller.arg.text, caller'.result>>}
    /\ UNCHANGED <<transcript_annotation, POLARS_AVAILABLE, ALL_GENES, GENE_INDEX_LOADED,
                   GENE_INDEX_LOADING, thread>>
    /\ UNCHANGED dataVars
    /\ UNCHANGED orderVars
    /\ UNCHANGED tableVars
    /\ UNCHANGED tab2Vars

\* if not ALL_GENES: return _search_genes_database(search_value), else the
\* in-memory search
SearchFinish ==
    /\ caller.pc = "search"
    /\ IF ALL_GENES = <<>>
       THEN \/ \E scan \in ScanOrders(transcript_annotation) :
                 caller' = [caller EXCEPT !.pc = "idle", !.path = "database",
                                          !.dbq = @ + 1,
                                          !.result = SearchDatabase(scan, caller.arg.text)]
            \/ caller' = [caller EXCEPT !.pc = "idle", !.path = "dberror",
                                        !.dbq = @ + 1, !.result = <<>>]
       ELSE caller' = [caller EXCEPT !.pc = "idle", !.path = "memory",
                                     !.result = SearchMemory(ALL_GENES, caller.arg.text)]
    /\ UNCHANGED <<transcript_annotation, POLARS_AVAILABLE, ALL_GENES, GENE_INDEX_LOADED,
                   GENE_INDEX_LOADING, SEARCH_RESULTS_CACHE, thread>>
    /\ UNCHANGED dataVars
    /\ UNCHANGED orderVars
    /\ UNCHANGED tableVars
    /\ UNCHANGED tab2Vars

----------------------------------------------------------------------------
(* get_gene_data_with_metadata *)

\* table names and gene ids passed by the callers (UT stands for
\* unique_transcript_data, TD for a table named transcript_data)
UT == <<"U", "_", "T", "D">>
TD == <<"T", "D">>
ExprTables == {UT, TD}
ENSG1_U == ENSG1 \o <<"_", "U">>
ENSG00 == <<"E", "N", "S", "G", "0", "0">>
NoLimit == 0 - 1         \* limit=None

Args(g, t, p, l) == [gene |-> g, table |-> t, with_polars |-> p, limit |-> l]

DataArgs == { Args(ENSG1, UT, TRUE, MAX_ROWS), Args(ENSG1, UT, TRUE, NoLimit),
              Args(ENSG1_U, TD, TRUE, MAX_ROWS), Args(ENSG00, UT, FALSE, MAX_ROWS) }

\* str(limit), str(with_polars)
LimitStr(l) == IF l = NoLimit THEN <<"N", "o", "n", "e">> ELSE <<"5", "0">>
BoolStr(b) == IF b THEN <<"T", "r", "u", "e">> ELSE <<"F", "a", "l", "s", "e">>

\* cache_key = f"{gene_id}_{table_name}_{limit}_{with_polars}"
CacheKey(a) ==
    a.gene \o <<"_">> \o a.table \o <<"_">> \o LimitStr(a.limit) \o <<"_">> \o BoolStr(a.with_polars)

\* the expression tables and the metadata table of the store
GeneCols(t) == <<"sample_id", "gene_id", "transcript_id", "counts">>
MetaCols == <<"sample_and_flowcell_id", "diagnosis", "age", "braak_tangle_score">>
ExprRowCount(g, t) == IF g = ENSG1 THEN 60 ELSE IF g = ENSG00 THEN 2 ELSE 0

\* WHERE g.gene_id = :gene_id LIMIT :limit
LimitRows(n, l) == IF l = NoLimit \/ n < l THEN n ELSE l

FrameKind(a, polars) == IF a.with_polars /\ polars THEN "polars" ELSE "pandas"

\* the frame read by the joined query
JoinFrame(a, polars) ==
    [table |-> a.table, gene |-> a.gene,
     cols |-> GeneCols(a.table) \o SelectSeq(MetaCols, LAMBDA c : c # "sample_and_flowcell_id"),
     nrows |-> LimitRows(ExprRowCount(a.gene, a.table), a.limit),
     kind |-> FrameKind(a, polars)]

\* the frame read by SELECT * FROM {table_name} WHERE gene_id = :gene_id LIMIT :limit
FallbackFrame(a, polars) ==
    [table |-> a.table, gene |-> a.gene, cols |-> GeneCols(a.table),
     nrows |-> LimitRows(ExprRowCount(a.gene, a.table), a.limit),
     kind |-> FrameKind(a, polars)]

NoFrame == [table |-> <<>>, gene |-> <<>>, cols |-> <<>>, nrows |-> 0 - 1, kind |-> "none"]

NoError == [kind |-> "none"]
DbError(q) == [kind |-> "db", query |-> q]
\* Exception(f"Gene ID '{gene_id}' not found in annotation table")
NotFoundError(g) == [kind |-> "not_found", gene |-> g]
\* Exception(f"Error getting gene data: Original error: {e}, Fallback error: {fallback_error}")
CombinedError(e, f) == [kind |-> "combined", original |-> e, fallback |-> f]

\* where the try block can fail: opening the connection or one of its queries
FailPoints == {"none", "connect", "exists", "gene_cols", "meta_cols", "join"}

InAnnotation(annotation, g) == \E i \in 1..Len(annotation) : annotation[i][1] = g

CacheHas(cache, key) == \E e \in cache : e[1] = key
CacheGet(cache, key) == (CHOOSE e \in cache : e[1] = key)[2]
\* a store that keeps one entry: the new frame evicts the others
CachePut_SingleEntry(cache, key, df) == {<<key, df>>}

\* MATRIX_DATA_CACHE[cache_key] = df
CachePut(cache, key, df) == {e \in cache : e[1] # key} \cup {<<key, df>>}

\* the try block storing the outcome of the existence query also when no row
\* was found
TryJoin_CachesMiss(a, failAt, info, annotation) ==
    LET cached == a.gene \in info
        found == cached \/ InAnnotation(annotation, a.gene)
        q1 == IF cached THEN <<>> ELSE <<"exists">>
    IN  IF failAt = "connect"
        THEN [queries |-> <<>>, error |-> DbError("connect"), info |-> info]
        ELSE IF ~cached /\ failAt = "exists"
        THEN [queries |-> q1, error |-> DbError("exists"), info |-> info]
        ELSE IF ~found
        THEN [queries |-> q1, error |-> NotFoundError(a.gene), info |-> info \cup {a.gene}]
        ELSE IF failAt = "gene_cols"
        THEN [queries |-> q1 \o <<"gene_cols">>, error |-> DbError("gene_cols"),
              info |-> info \cup {a.gene}]
        ELSE IF failAt = "meta_cols"
        THEN [queries |-> q1 \o <<"gene_cols", "meta_cols">>, error |-> DbError("meta_cols"),
              info |-> info \cup {a.gene}]
        ELSE IF failAt = "join"
        THEN [queries |-> q1 \o <<"gene_cols", "meta_cols", "join">>, error |-> DbError("join"),
              info |-> info \cup {a.gene}]
        ELSE [queries |-> q1 \o <<"gene_cols", "meta_cols", "join">>, error |-> NoError,
              info |-> info \cup {a.gene}]

\* the try block: the queries it issues up to the first failure, the error it
\* ends with and the gene-info cache it leaves
TryJoin(a, failAt, info, annotation) ==
    LET cached == a.gene \in info
        found == cached \/ InAnnotation(annotation, a.gene)
        q1 == IF cached THEN <<>> ELSE <<"exists">>
    IN  IF failAt = "connect"
        THEN [queries |-> <<>>, error |-> DbError("connect"), info |-> info]
        ELSE IF ~cached /\ failAt = "exists"
        THEN [queries |-> q1, error |-> DbError("exists"), info |-> info]
        ELSE IF ~found
        THEN [queries |-> q1, error |-> NotFoundError(a.gene), info |-> info]
        ELSE IF failAt = "gene_cols"
        THEN [queries |-> q1 \o <<"gene_cols">>, error |-> DbError("gene_cols"),
              info |-> info \cup {a.gene}]
        ELSE IF failAt = "meta_cols"
        THEN [queries |-> q1 \o <<"gene_cols", "meta_cols">>, error |-> DbError("meta_cols"),
              info |-> info \cup {a.gene}]
        ELSE IF failAt = "join"
        THEN [queries |-> q1 \o <<"gene_cols", "meta_cols", "join">>, error |-> DbError("join"),
              info |-> info \cup {a.gene}]
        ELSE [queries |-> q1 \o <<"gene_cols", "meta_cols", "join">>, error |-> NoError,
              info |-> info \cup {a.gene}]

\* an except branch that selects the columns of the join again
Fallback_JoinColumns(a, try, fbFails, cache, polars) ==
    IF fbFails
    THEN [hit |-> FALSE, raised |-> TRUE, result |-> NoFrame,
          error |-> CombinedError(try.error, DbError("fallback")),
          queries |-> try.queries \o <<"fallback">>, tryError |-> try.error,
          cache |-> cache, info |-> try.info]
    ELSE [hit |-> FALSE, raised |-> FALSE, result |-> JoinFrame(a, polars),
          error |-> NoError,
          queries |-> try.queries \o <<"fallback">>, tryError |-> try.error,
          cache |-> CachePut(cache, CacheKey(a), JoinFrame(a, polars)), info |-> try.info]

\* an except branch that tries the unjoined query a second time and reports
\* only the last error
Fallback_Retry(a, try, fbFails, cache, polars) ==
    IF fbFails
    THEN [hit |-> FALSE, raised |-> TRUE, result |-> NoFrame,
          error |-> DbError("fallback"),
          queries |-> try.queries \o <<"fallback", "fallback">>, tryError |-> try.error,
          cache |-> cache, info |-> try.info]
    ELSE [hit |-> FALSE, raised |-> FALSE, result |-> FallbackFrame(a, polars),
          error |-> NoError,
          queries |-> try.queries \o <<"fallback">>, tryError |-> try.error,
          cache |-> CachePut(cache, CacheKey(a), FallbackFrame(a, polars)), info |-> try.info]

\* an except branch that stores an entry also when the unjoined query fails
Fallback_CacheFailure(a, try, fbFails, cache, polars) ==
    IF fbFails
    THEN [hit |-> FALSE, raised |-> TRUE, result |-> NoFrame,
          error |-> CombinedError(try.error, DbError("fallback")),
          queries |-> try.queries \o <<"fallback">>, tryError |-> try.error,
          cache |-> CachePut(cache, CacheKey(a), NoFrame), info |-> try.info]
    ELSE [hit |-> FALSE, raised |-> FALSE, result |-> FallbackFrame(a, polars),
          error |-> NoError,
          queries |-> try.queries \o <<"fallback">>, tryError |-> try.error,
          cache |-> CachePut(cache, CacheKey(a), FallbackFrame(a, polars)), info |-> try.info]

\* the except branch: one unjoined query; its frame is stored and returned
\* like a joined one, its failure raises the combined error
Fallback(a, try, fbFails, cache, polars) ==
    IF fbFails
    THEN [hit |-> FALSE, raised |-> TRUE, result |-> NoFrame,
          error |-> CombinedError(try.error, DbError("fallback")),
          queries |-> try.queries \o <<"fallback">>, tryError |-> try.error,
          cache |-> cache, info |-> try.info]
    ELSE [hit |-> FALSE, raised |-> FALSE, result |-> FallbackFrame(a, polars),
          error |-> NoError,
          queries |-> try.queries \o <<"fallback">>, tryError |-> try.error,
          cache |-> CachePut(cache, CacheKey(a), FallbackFrame(a, polars)), info |-> try.info]

\* a call that never looks into the result cache
GetGeneData_NoLookup(a, failAt, fbFails, cache, info, annotation, polars) ==
    LET try == TryJoin(a, failAt, info, annotation)
    IN  IF try.error.kind = "none"
        THEN [hit |-> FALSE, raised |-> FALSE, result |-> JoinFrame(a, polars),
              error |-> NoError, queries |-> try.queries, tryError |-> NoError,
              cache |-> CachePut(cache, CacheKey(a), JoinFrame(a, polars)),
              info |-> try.info]
        ELSE Fallback(a, try, fbFails, cache, polars)

\* one call: what it returns or raises, the queries it issues, and the two
\* caches as it leaves them
GetGeneData(a, failAt, fbFails, cache, info, annotation, polars) ==
    IF CacheHas(cache, CacheKey(a))
    THEN [hit |-> TRUE, raised |-> FALSE, result |-> CacheGet(cache, CacheKey(a)),
          error |-> NoError, queries |-> <<>>, tryError |-> NoError,
          cache |-> cache, info |-> info]
    ELSE LET try == TryJoin(a, failAt, info, annotation)
         IN  IF try.error.kind = "none"
             THEN [hit |-> FALSE, raised |-> FALSE, result |-> JoinFrame(a, polars),
                   error |-> NoError, queries |-> try.queries, tryError |-> NoError,
                   cache |-> CachePut(cache, CacheKey(a), JoinFrame(a, polars)),
                   info |-> try.info]
             ELSE Fallback(a, try, fbFails, cache, polars)

NoView == [kind |-> "none", warning |-> "none", note |-> FALSE, direct |-> 0]

NoCall == [op |-> "none", args |-> Args(<<>>, <<>>, FALSE, NoLimit), hit |-> FALSE,
           raised |-> FALSE, result |-> NoFrame, error |-> NoError, queries |-> <<>>,
           tryError |-> NoError, prev |-> NoFrame, changed |-> FALSE, view |-> NoView]

\* the frame that the last call with the arguments a returned, if any
Previous(ret, a) == IF \E e \in ret : e[1] = a THEN (CHOOSE e \in ret : e[1] = a)[2] ELSE NoFrame

\* prev: the frame returned before for the same arguments; changed: whether
\* the call left the result cache different from what it found
CallRecord(op, a, r, view) ==
    [op |-> op, args |-> a, hit |-> r.hit, raised |-> r.raised, result |-> r.result,
     error |-> r.error, queries |-> r.queries, tryError |-> r.tryError,
     prev |-> Previous(returned, a), changed |-> r.cache # MATRIX_DATA_CACHE,
     view |-> view]

\* returned[a] := the frame handed to the caller
Remember(ret, a, r) ==
    IF r.raised THEN ret ELSE {e \in ret : e[1] # a} \cup {<<a, r.result>>}

\* a call of get_gene_data_with_metadata from outside the matrix callback
GetGeneDataCall(a, failAt, fbFails) ==
    LET r == GetGeneData(a, failAt, fbFails, MATRIX_DATA_CACHE, GENE_INFO_CACHE,
                         transcript_annotation, POLARS_AVAILABLE)
    IN  /\ MATRIX_DATA_CACHE' = r.cache
        /\ GENE_INFO_CACHE' = r.info
        /\ lastCall' = CallRecord("get", a, r, NoView)
        /\ returned' = Remember(returned, a, r)
        /\ UNCHANGED <<transcript_annotation, POLARS_AVAILABLE, SEARCH_RESULTS_CACHE>>
        /\ UNCHANGED indexVars
        /\ UNCHANGED orderVars
        /\ UNCHANGED tableVars
        /\ UNCHANGED tab2Vars

----------------------------------------------------------------------------
(* clear_cache *)

\* clear_cache resetting the loading flag as well
ClearCache_ResetsLoading ==
    /\ GENE_INFO_CACHE' = {}
    /\ MATRIX_DATA_CACHE' = {}
    /\ SEARCH_RESULTS_CACHE' = {}
    /\ ALL_GENES' = <<>>
    /\ GENE_INDEX_LOADED' = FALSE
    /\ GENE_INDEX_LOADING' = FALSE
    /\ returned' = {}
    /\ UNCHANGED <<transcript_annotation, POLARS_AVAILABLE, thread, caller, lastCall>>
    /\ UNCHANGED orderVars
    /\ UNCHANGED tableVars
    /\ UNCHANGED tab2Vars

ClearCache ==
    /\ GENE_INFO_CACHE' = {}
    /\ MATRIX_DATA_CACHE' = {}
    /\ SEARCH_RESULTS_CACHE' = {}
    /\ ALL_GENES' = <<>>
    /\ GENE_INDEX_LOADED' = FALSE
    /\ returned' = {}
    /\ UNCHANGED <<transcript_annotation, POLARS_AVAILABLE, GENE_INDEX_LOADING, thread,
                   caller, lastCall>>
    /\ UNCHANGED orderVars
    /\ UNCHANGED tableVars
    /\ UNCHANGED tab2Vars

----------------------------------------------------------------------------
(* update_matrix_content (callbacks.py) *)

\* err_msg = "Used direct query fallback (no metadata join)"
NO_JOIN_WARNING == "Used direct query fallback (no metadata join)"

\* metadata_columns of update_matrix_content
MetadataColumns == {"diagnosis", "age", "pmi", "sex", "apoe", "braak_tangle_score",
                    "mapping_rate", "tin_median", "rin"}

\* has_metadata = any(col in df.columns for col in metadata_columns)
HasMetadata(df) == \E i \in 1..Len(df.cols) : df.cols[i] \in MetadataColumns

\* the two queries before the data fetch can fail, find no gene or no row
PreFailPoints == {"none", "gene_info", "row_count"}

\* the outcomes of the store during one run of the callback; a query that is
\* not reached has no outcome
ViewOutcomes ==
    { o \in [preFail : PreFailPoints, failAt : FailPoints,
             fbFails : BOOLEAN, directFails : BOOLEAN] :
        /\ o.preFail # "none" => o.failAt = "none" /\ ~o.fbFails
        /\ ~o.fbFails => ~o.directFails }

\* what the callback renders: its kind, the err_msg warning, the "Could not
\* join with metadata table" note, and the data queries it issued itself
View(kind, warning, note, direct) ==
    [kind |-> kind, warning |-> warning, note |-> note, direct |-> direct]

\* the data fetch of the callback: get_gene_data_with_metadata, and on an
\* exception one direct unjoined query through duck_conn
FetchView(r, directFails) ==
    IF ~r.raised
    THEN View("content", "none", ~HasMetadata(r.result), 0)
    ELSE IF directFails
    THEN View("error", "none", FALSE, 1)
    ELSE View("content", NO_JOIN_WARNING, TRUE, 1)

UpdateMatrixContent(selected_table, selected_gene, o) ==
    /\ POLARS_AVAILABLE
    /\ LET a == Args(selected_gene, selected_table, TRUE, MAX_ROWS)
           preFail == o.preFail
           failAt == o.failAt
           fbFails == o.fbFails
           directFails == o.directFails
           r == GetGeneData(a, failAt, fbFails, MATRIX_DATA_CACHE, GENE_INFO_CACHE,
                            transcript_annotation, POLARS_AVAILABLE)
           early == IF selected_table = <<>> \/ selected_gene = <<>> THEN "prompt"
                    ELSE IF preFail = "gene_info" THEN "pre_error"
                    ELSE IF ~InAnnotation(transcript_annotation, selected_gene) THEN "not_found"
                    ELSE IF preFail = "row_count" THEN "pre_error"
                    ELSE IF ExprRowCount(selected_gene, selected_table) = 0 THEN "no_data"
                    ELSE "none"
       IN  IF early # "none"
           THEN /\ lastCall' = [NoCall EXCEPT !.op = "view", !.args = a,
                                              !.view = View(early, "none", FALSE, 0)]
                /\ UNCHANGED <<MATRIX_DATA_CACHE, GENE_INFO_CACHE, returned>>
           ELSE /\ MATRIX_DATA_CACHE' = r.cache
                /\ GENE_INFO_CACHE' = r.info
                /\ lastCall' = CallRecord("view", a, r, FetchView(r, directFails))
                /\ returned' = Remember(returned, a, r)
    /\ UNCHANGED <<transcript_annotation, POLARS_AVAILABLE, SEARCH_RESULTS_CACHE>>
    /\ UNCHANGED indexVars
    /\ UNCHANGED orderVars
    /\ UNCHANGED tableVars
    /\ UNCHANGED tab2Vars

----------------------------------------------------------------------------
(* order_transcripts_by_expression (polars_utils.py). A frame is a record  *)
(* [cols, rows]: the column names in order, and the rows as functions from *)
(* column names to values.                                                 *)

TRANSCRIPT_ID == "transcript_id"            \* transcript_id_column
TOTAL_EXPRESSION == "total_expression"      \* the helper column of the function
EXPRESSION_COLUMN == "cpm_normalized_tmm"   \* the default of expression_column

\* the transcript ids of the model, in alphabetical order
IdOrder == <<"T1", "T2", "T3", "T4", "T5">>
IdRank(t) == CHOOSE i \in 1..Len(IdOrder) : IdOrder[i] = t

Columns(df) == SeqRange(df.cols)

\* set(df["transcript_id"].unique())
TranscriptIds(df) == {df.rows[i][TRANSCRIPT_ID] : i \in 1..Len(df.rows)}

\* df.filter(pl.col("transcript_id").is_in(ids))
FilterIds(df, ids) == [df EXCEPT !.rows = SelectSeq(@, LAMBDA r : r[TRANSCRIPT_ID] \in ids)]

RECURSIVE SumColumn(_, _, _)
\* pl.sum(col) over the rows of the transcript t
SumColumn(rows, col, t) ==
    IF rows = <<>> THEN 0
    ELSE (IF Head(rows)[TRANSCRIPT_ID] = t THEN Head(rows)[col] ELSE 0)
         + SumColumn(Tail(rows), col, t)

\* group_by("transcript_id").agg(pl.sum(col).alias("total_expression"))
Aggregate(df, col) == [t \in TranscriptIds(df) |-> SumColumn(df.rows, col, t)]

\* the selection order sorted with descending=[False, False]
MostExpressedFirst_Ascending(totals) ==
    [p \in (DOMAIN totals) \X (DOMAIN totals) |->
        \/ totals[p[1]] < totals[p[2]]
        \/ totals[p[1]] = totals[p[2]] /\ IdRank(p[1]) < IdRank(p[2])]

\* sort(by=["total_expression", "transcript_id"], descending=[True, False])
MostExpressedFirst(totals) ==
    [p \in (DOMAIN totals) \X (DOMAIN totals) |->
        \/ totals[p[1]] > totals[p[2]]
        \/ totals[p[1]] = totals[p[2]] /\ IdRank(p[1]) < IdRank(p[2])]

\* ordered_transcript_ids
OrderedTranscriptIds(totals) ==
    SortRows(SelectSeq(IdOrder, LAMBDA t : t \in DOMAIN totals), MostExpressedFirst(totals))

\* the values of top_n and range_slice: None, an int, a list or tuple of two
\* ints, a list of two strings, and a value of any other shape
NoneValue == [kind |-> "none", a |-> 0, b |-> 0]
IntValue(n) == [kind |-> "int", a |-> n, b |-> 0]
PairValue(start, end) == [kind |-> "pair", a |-> start, b |-> end]
StrPairValue == [kind |-> "str_pair", a |-> 0, b |-> 0]
OtherValue == [kind |-> "other", a |-> 0, b |-> 0]

\* the slice taken with its end included: ids[start:end + 1]
SliceRange_EndInclusive(ids, start, end) ==
    IF 0 <= start /\ start < end /\ end <= Len(ids)
    THEN SubSeq(ids, start + 1, IF end < Len(ids) THEN end + 1 ELSE end)
    ELSE ids

\* if 0 <= start < end and end <= len(ids): ids[start:end], else all of them
SliceRange(ids, start, end) ==
    IF 0 <= start /\ start < end /\ end <= Len(ids)
    THEN SubSeq(ids, start + 1, end)
    ELSE ids

\* transcripts_to_keep; the comparison 0 <= start raises TypeError when the
\* two elements are strings
TranscriptsToKeep(ids, top_n, range_slice) ==
    IF top_n.kind # "none"
    THEN IF top_n.kind = "str_pair"
         THEN [raised |-> TRUE, ids |-> <<>>]
         ELSE IF top_n.kind = "pair"
         THEN [raised |-> FALSE, ids |-> SliceRange(ids, top_n.a, top_n.b)]
         ELSE IF top_n.kind = "int" /\ top_n.a > 0
         THEN [raised |-> FALSE,
               ids |-> IF top_n.a < Len(ids) THEN SubSeq(ids, 1, top_n.a) ELSE ids]
         ELSE [raised |-> FALSE, ids |-> ids]
    ELSE IF range_slice.kind # "none"
    THEN [raised |-> FALSE, ids |-> SliceRange(ids, range_slice.a, range_slice.b)]
    ELSE [raised |-> FALSE, ids |-> ids]

\* the name under which the join adds the right frame's total_expression: a
\* name the left frame already has gets the suffix "_right"
JoinedName(df) ==
    IF TOTAL_EXPRESSION \in Columns(df) THEN "total_expression_right" ELSE TOTAL_EXPRESSION

\* df.join(sorted_transcripts.select(["transcript_id", "total_expression"]),
\*         on="transcript_id", how="inner")
JoinTotals(df, totals) ==
    LET name == JoinedName(df)
        kept == SelectSeq(df.rows, LAMBDA r : r[TRANSCRIPT_ID] \in DOMAIN totals)
    IN  [cols |-> Append(df.cols, name),
         rows |-> [i \in 1..Len(kept) |->
                     [c \in DOMAIN kept[i] \cup {name} |->
                         IF c = name THEN totals[kept[i][TRANSCRIPT_ID]] ELSE kept[i][c]]]]

\* the final sort with the tie-break on descending transcript id
LeastExpressedFirst_IdDescending(rows) ==
    [p \in rows \X rows |->
        \/ p[1][TOTAL_EXPRESSION] < p[2][TOTAL_EXPRESSION]
        \/ /\ p[1][TOTAL_EXPRESSION] = p[2][TOTAL_EXPRESSION]
           /\ IdRank(p[1][TRANSCRIPT_ID]) > IdRank(p[2][TRANSCRIPT_ID])]

\* sort(by=["total_expression", "transcript_id"], descending=[False, False])
LeastExpressedFirst(rows) ==
    [p \in rows \X rows |->
        \/ p[1][TOTAL_EXPRESSION] < p[2][TOTAL_EXPRESSION]
        \/ /\ p[1][TOTAL_EXPRESSION] = p[2][TOTAL_EXPRESSION]
           /\ IdRank(p[1][TRANSCRIPT_ID]) < IdRank(p[2][TRANSCRIPT_ID])]

\* DataFrame.sort without maintain_order: rows with equal keys come out in
\* the order of the frame (stable) or in the opposite order
SortFrame(df, stable) ==
    LET rows == IF stable THEN df.rows ELSE Reverse(df.rows)
    IN  [df EXCEPT !.rows = SortRows(rows, LeastExpressedFirst(SeqRange(rows)))]

\* df.drop(col)
DropColumn(df, col) ==
    [cols |-> SelectSeq(df.cols, LAMBDA c : c # col),
     rows |-> [i \in 1..Len(df.rows) |->
                 [c \in DOMAIN df.rows[i] \ {col} |-> df.rows[i][c]]]]

\* one returned frame: join, filter to the kept transcripts, sort, and drop
\* the helper column unless the input frame had a column of that name
FinalFrame(filtered, input, totals, keep, stable) ==
    LET sorted == SortFrame(FilterIds(JoinTotals(filtered, totals), SeqRange(keep)), stable)
    IN  IF TOTAL_EXPRESSION \notin Columns(input)
        THEN DropColumn(sorted, TOTAL_EXPRESSION)
        ELSE sorted

NoFrames == [cols |-> <<>>, rows |-> <<>>]

\* the call keeping every transcript of the expression frame, annotated or not
OrderTranscripts_ExpressionIds(annotation_df, expression_df, expression_column, top_n, range_slice, polars, stable) ==
    IF ~polars
    THEN [raised |-> FALSE, expression |-> expression_df, annotation |-> annotation_df]
    ELSE IF expression_column \notin Columns(expression_df)
    THEN [raised |-> FALSE, expression |-> expression_df, annotation |-> annotation_df]
    ELSE LET common_transcripts == TranscriptIds(expression_df)
             filtered_annotation == FilterIds(annotation_df, common_transcripts)
             filtered_expression == FilterIds(expression_df, common_transcripts)
             totals == Aggregate(filtered_expression, expression_column)
             keep == TranscriptsToKeep(OrderedTranscriptIds(totals), top_n, range_slice)
         IN  IF keep.raised
             THEN [raised |-> TRUE, expression |-> NoFrames, annotation |-> NoFrames]
             ELSE [raised |-> FALSE,
                   expression |-> FinalFrame(filtered_expression, expression_df, totals,
                                             keep.ids, stable[1]),
                   annotation |-> FinalFrame(filtered_annotation, annotation_df, totals,
                                             keep.ids, stable[2])]

\* the call: what it returns (expression frame, annotation frame) or that it
\* raises
OrderTranscripts(annotation_df, expression_df, expression_column, top_n, range_slice, polars, stable) ==
    IF ~polars
    THEN [raised |-> FALSE, expression |-> expression_df, annotation |-> annotation_df]
    ELSE IF expression_column \notin Columns(expression_df)
    THEN [raised |-> FALSE, expression |-> expression_df, annotation |-> annotation_df]
    ELSE LET common_transcripts == TranscriptIds(annotation_df) \cap TranscriptIds(expression_df)
             filtered_annotation == FilterIds(annotation_df, common_transcripts)
             filtered_expression == FilterIds(expression_df, common_transcripts)
             totals == Aggregate(filtered_expression, expression_column)
             keep == TranscriptsToKeep(OrderedTranscriptIds(totals), top_n, range_slice)
         IN  IF keep.raised
             THEN [raised |-> TRUE, expression |-> NoFrames, annotation |-> NoFrames]
             ELSE [raised |-> FALSE,
                   expression |-> FinalFrame(filtered_expression, expression_df, totals,
                                             keep.ids, stable[1]),
                   annotation |-> FinalFrame(filtered_annotation, annotation_df, totals,
                                             keep.ids, stable[2])]

\* the frames of the model
AnnotationRow(t, e) == [transcript_id |-> t, exon_number |-> e]
ExpressionRow(t, sample, v) == [transcript_id |-> t, sample_id |-> sample, cpm_normalized_tmm |-> v]

\* transcripts T1 (two exons), T2, T3
AnnotationT123 ==
    [cols |-> <<"transcript_id", "exon_number">>,
     rows |-> <<AnnotationRow("T3", 1), AnnotationRow("T1", 1), AnnotationRow("T1", 2),
                AnnotationRow("T2", 1)>>]

\* T4 has no expression row
AnnotationT1234 ==
    [cols |-> <<"transcript_id", "exon_number">>,
     rows |-> <<AnnotationRow("T2", 1), AnnotationRow("T4", 1), AnnotationRow("T1", 1),
                AnnotationRow("T3", 1)>>]

\* an annotation frame with a total_expression column of its own
AnnotationWithTotal ==
    [cols |-> <<"transcript_id", "exon_number", "total_expression">>,
     rows |-> <<[transcript_id |-> "T1", exon_number |-> 1, total_expression |-> 3],
                [transcript_id |-> "T2", exon_number |-> 1, total_expression |-> 2],
                [transcript_id |-> "T3", exon_number |-> 1, total_expression |-> 1]>>]

AnnotationFrames == {AnnotationT123, AnnotationT1234, AnnotationWithTotal}

\* totals T1: 50, T2: 50, T3: 10
Expression50 ==
    [cols |-> <<"transcript_id", "sample_id", "cpm_normalized_tmm">>,
     rows |-> <<ExpressionRow("T2", "S1", 25), ExpressionRow("T1", "S1", 20),
                ExpressionRow("T3", "S1", 10), ExpressionRow("T1", "S2", 30),
                ExpressionRow("T2", "S2", 25)>>]

\* totals T1: 5, T2: 7, T3: 7, and T5 without annotation
ExpressionTies ==
    [cols |-> <<"transcript_id", "sample_id", "cpm_normalized_tmm">>,
     rows |-> <<ExpressionRow("T1", "S1", 5), ExpressionRow("T3", "S1", 7),
                ExpressionRow("T2", "S1", 7), ExpressionRow("T5", "S1", 1)>>]

\* an expression frame with a total_expression column of its own
ExpressionWithTotal ==
    [cols |-> <<"transcript_id", "sample_id", "cpm_normalized_tmm", "total_expression">>,
     rows |-> <<[transcript_id |-> "T1", sample_id |-> "S1", cpm_normalized_tmm |-> 50,
                 total_expression |-> 1],
                [transcript_id |-> "T2", sample_id |-> "S1", cpm_normalized_tmm |-> 50,
                 total_expression |-> 9],
                [transcript_id |-> "T3", sample_id |-> "S1", cpm_normalized_tmm |-> 10,
                 total_expression |-> 5]>>]

\* an expression frame without the expression column
ExpressionCounts ==
    [cols |-> <<"transcript_id", "sample_id", "counts">>,
     rows |-> <<[transcript_id |-> "T1", sample_id |-> "S1", counts |-> 4],
                [transcript_id |-> "T2", sample_id |-> "S1", counts |-> 6]>>]

ExpressionFrames == {Expression50, ExpressionTies, ExpressionWithTotal, ExpressionCounts}

MaxTopN == 4    \* the largest integer tried as top_n or as a bound of a range

Ranges == {PairValue(start, end) : start \in (0 - 1)..(MaxTopN - 2), end \in 0..MaxTopN}

\* the pairs (top_n, range_slice) of the calls: range_slice is given with
\* top_n omitted, and once together with a top_n
Selections ==
    {<<top_n, NoneValue>> :
        top_n \in {NoneValue, StrPairValue, OtherValue}
                    \cup {IntValue(n) : n \in (0 - 1)..MaxTopN} \cup Ranges}
    \cup {<<NoneValue, PairValue(0, 1)>>, <<NoneValue, PairValue(1, MaxTopN + 1)>>,
          <<IntValue(2), PairValue(0, 1)>>}

\* pc is "running" between the call and its return; called says that the
\* outcome fields hold the outcome of the call with the recorded arguments
NoOrdering ==
    [pc |-> "idle", called |-> FALSE, annotation_df |-> NoFrames, expression_df |-> NoFrames,
     top_n |-> NoneValue, range_slice |-> NoneValue,
     raised |-> FALSE, expression |-> NoFrames, annotation |-> NoFrames]

\* a call order_transcripts_by_expression(annotation_df, expression_df,
\* "cpm_normalized_tmm", top_n, range_slice) is made
OrderBegin(annotation_df, expression_df, top_n, range_slice) ==
    /\ ordering.pc = "idle"
    /\ ordering' = [NoOrdering EXCEPT !.pc = "running", !.annotation_df = annotation_df,
                                      !.expression_df = expression_df, !.top_n = top_n,
                                      !.range_slice = range_slice]
    /\ UNCHANGED <<transcript_annotation, POLARS_AVAILABLE, SEARCH_RESULTS_CACHE>>
    /\ UNCHANGED indexVars
    /\ UNCHANGED dataVars
    /\ UNCHANGED tableVars
    /\ UNCHANGED tab2Vars

\* the call returns its two frames or raises
OrderReturn(stable) ==
    /\ ordering.pc = "running"
    /\ LET r == OrderTranscripts(ordering.annotation_df, ordering.expression_df,
                                 EXPRESSION_COLUMN, ordering.top_n, ordering.range_slice,
                                 POLARS_AVAILABLE, stable)
       IN  ordering' = [ordering EXCEPT !.pc = "idle", !.called = TRUE,
                                        !.raised = r.raised, !.expression = r.expression,
                                        !.annotation = r.annotation]
    /\ UNCHANGED <<transcript_annotation, POLARS_AVAILABLE, SEARCH_RESULTS_CACHE>>
    /\ UNCHANGED indexVars
    /\ UNCHANGED dataVars
    /\ UNCHANGED tableVars
    /\ UNCHANGED tab2Vars

----------------------------------------------------------------------------
(* get_matrix_tables and get_matrix_dropdown_options. A catalog is the     *)
(* sequence of rows <<table_schema, table_name>> of information_schema.    *)

TRANSCRIPT_DATA == <<"t", "r", "a", "n", "s", "c", "r", "i", "p", "t", "_", "d", "a", "t", "a">>

\* the values of ordered_options
TOTAL_TABLE == <<"t", "o", "t", "a", "l", "_">> \o TRANSCRIPT_DATA
UNIQUE_TABLE == <<"u", "n", "i", "q", "u", "e", "_">> \o TRANSCRIPT_DATA
FULLLENGTH_TABLE == <<"f", "u", "l", "l", "l", "e", "n", "g", "t", "h", "_">> \o TRANSCRIPT_DATA

\* ordered_options of get_matrix_dropdown_options
ORDERED_OPTIONS ==
    <<[label |-> "Total Counts", value |-> TOTAL_TABLE],
      [label |-> "Unique Counts", value |-> UNIQUE_TABLE],
      [label |-> "Full Length Counts", value |-> FULLLENGTH_TABLE]>>

\* '%transcript_data%'
MATRIX_PATTERN == <<"%">> \o TRANSCRIPT_DATA \o <<"%">>

\* the rows of information_schema.tables of the model, in catalog order: the
\* three matrix tables (one created with a mixed-case name), a name that
\* matches the pattern through the wildcard _ only, the annotation table, and
\* a matrix table of another schema
AllTables ==
    << <<"public", <<"u", "N", "i", "q", "u", "E", "_">> \o TRANSCRIPT_DATA>>,
       <<"public", <<"t", "r", "a", "n", "s", "c", "r", "i", "p", "t", "_", "a", "n", "n", "o", "t", "a", "t", "i", "o", "n">>>>,
       <<"public", TOTAL_TABLE>>,
       <<"archive", FULLLENGTH_TABLE>>,
       <<"public", <<"t", "o", "t", "a", "l", "_", "t", "r", "a", "n", "s", "c", "r", "i", "p", "t", "0", "d", "a", "t", "a">>>>,
       <<"public", FULLLENGTH_TABLE>> >>

\* the catalogs that hold some of these tables
Catalogs ==
    {SelectRows(AllTables, [r \in SeqRange(AllTables) |-> r \in S], 1) :
        S \in SUBSET SeqRange(AllTables)}

TableNameLess(rows) == [p \in rows \X rows |-> StrLess(p[1][2], p[2][2])]

\* SELECT table_name FROM information_schema.tables WHERE table_schema = 'public'
\* AND LOWER(table_name) LIKE '%transcript_data%' ORDER BY table_name
MatrixTables(catalog) ==
    LET keep == [r \in SeqRange(catalog) |->
                    r[1] = "public" /\ LikeMatch(Lower(r[2]), MATRIX_PATTERN)]
        rows == SortRows(SelectRows(catalog, keep, 1), TableNameLess(SeqRange(catalog)))
    IN  [i \in 1..Len(rows) |-> rows[i][2]]

\* the filter comparing the names as they are, without .lower()
FilterOptions_CaseSensitive(matrix_tables) ==
    SelectSeq(ORDERED_OPTIONS, LAMBDA opt : opt.value \in SeqRange(matrix_tables))

\* [opt for opt in ordered_options if opt['value'].lower() in [t.lower() for t in matrix_tables]]
FilterOptions(matrix_tables) ==
    SelectSeq(ORDERED_OPTIONS,
              LAMBDA opt : Lower(opt.value) \in {Lower(t) : t \in SeqRange(matrix_tables)})

NoDropdown == [called |-> FALSE, catalog |-> <<>>, failed |-> FALSE,
               matrix_tables |-> <<>>, options |-> <<>>]

\* a call get_matrix_dropdown_options(); get_matrix_tables returns [] when the
\* connection or the query raises
GetMatrixDropdownOptions(catalog, fails) ==
    LET matrix_tables == IF fails THEN <<>> ELSE MatrixTables(catalog)
    IN  /\ dropdown' = [called |-> TRUE, catalog |-> catalog, failed |-> fails,
                        matrix_tables |-> matrix_tables,
                        options |-> FilterOptions(matrix_tables)]
        /\ UNCHANGED <<transcript_annotation, POLARS_AVAILABLE, SEARCH_RESULTS_CACHE>>
        /\ UNCHANGED indexVars
        /\ UNCHANGED dataVars
        /\ UNCHANGED orderVars
        /\ UNCHANGED tab2Vars

----------------------------------------------------------------------------
(* The specifications *)

\* the state after import of db_utils: empty caches, flags false, and the
\* loader thread of the module-level start_async_gene_index_load() started
----------------------------------------------------------------------------
(* The gene search callback of app/tabs/tab2.py *)

\* the browser sessions served by the one server process
Sessions == {"s1", "s2"}

\* a gene id that is in no annotation table
ENSG9 == <<"E", "N", "S", "G", "9">>

\* the search texts and the selected values the dropdown sends
SearchValues == {NoneArg, StrArg(<<"A">>), StrArg(<<"A", "P">>)}

SelectedValues == {NoneArg, StrArg(ENSG1), StrArg(ENSG9)}

\* the outcomes of "SELECT gene_id, gene_name FROM transcript_annotation
\* WHERE gene_id = ? LIMIT 1" followed by fetchone(): one of the rows with
\* that gene id, None, or an exception
NoRow == [kind |-> "none"]

LookupError == [kind |-> "error"]

GeneLookups(annotation, selected_value) ==
    LET found == {i \in 1..Len(annotation) : annotation[i][1] = selected_value.text}
    IN  (IF found = {} THEN {NoRow} ELSE {[kind |-> "row", row |-> annotation[i]] : i \in found})
            \cup {LookupError}

\* any(opt.get('value') == selected_value for opt in last_valid_options)
SelectedInOptions(options, selected_value) ==
    \E i \in 1..Len(options) : options[i].value = selected_value.text

\* update_search_options(search_value, selected_value) as a function of the
\* two module globals, the outcome of the lookup and the outcome of
\* search_genes: the options it returns and the globals it leaves
UpdateSearchOptions(valid_options, last_search, search_value, selected_value, lookup, results) ==
    IF ~Falsy(selected_value) /\ Falsy(search_value)
    THEN LET options ==
                 IF SelectedInOptions(valid_options, selected_value) THEN valid_options
                 ELSE IF lookup.kind = "row" THEN <<Option(lookup.row)>>
                 ELSE IF lookup.kind = "error"
                 THEN <<[label |-> selected_value.text, value |-> selected_value.text]>>
                 ELSE valid_options
         IN  [options |-> options, last_valid_options |-> options,
              last_search_value |-> last_search]
    ELSE IF Falsy(search_value) \/ Len(search_value.text) < 2
    THEN [options |-> valid_options, last_valid_options |-> valid_options,
          last_search_value |-> last_search]
    ELSE [options |-> results,
          last_valid_options |-> IF results # <<>> THEN results ELSE valid_options,
          last_search_value |-> IF results # <<>> THEN search_value ELSE last_search]

\* the call reaches search_genes(search_value, last_search_value)
ReachesSearch(search_value, selected_value) ==
    /\ ~(~Falsy(selected_value) /\ Falsy(search_value))
    /\ ~(Falsy(search_value) \/ Len(search_value.text) < 2)

\* the session whose answers are compared with the answers it would get were
\* it the only session of the process
Observed == "s1"

\* no call yet; own_last_valid_options and own_last_search_value are what the
\* two globals would hold had the observed session been the only caller, and
\* own_options what its last call would then have returned
NoSession ==
    [called |-> FALSE, id |-> Observed, search_value |-> NoneArg,
     selected_value |-> NoneArg, options |-> <<>>, own_options |-> <<>>,
     own_last_valid_options |-> <<>>, own_last_search_value |-> NoneArg]

\* one run of the callback for session s; lookup is the outcome of the query
\* for the selected gene and results what search_genes returns, each used only
\* on the path that reaches it.  search_genes runs inside the callback:
\* _load_gene_index returns at once when the index is loaded, waits while a
\* load is running, and otherwise loads synchronously (sync is whether that
\* load succeeds), then the search reads the published gene list
UpdateSearch(s, search_value, selected_value, lookup, results, sync) ==
    LET searches == ReachesSearch(search_value, selected_value)
        out == UpdateSearchOptions(last_valid_options, last_search_value, search_value,
                                   selected_value, lookup, results)
        own == UpdateSearchOptions(session.own_last_valid_options,
                                   session.own_last_search_value, search_value,
                                   selected_value, lookup, results)
    IN  /\ searches => (GENE_INDEX_LOADED \/ ~GENE_INDEX_LOADING)
        /\ GENE_INDEX_LOADED' = (GENE_INDEX_LOADED \/ (searches /\ sync))
        /\ last_valid_options' = out.last_valid_options
        /\ last_search_value' = out.last_search_value
        /\ session' =
               IF s = Observed
               THEN [called |-> TRUE, id |-> s, search_value |-> search_value,
                     selected_value |-> selected_value, options |-> out.options,
                     own_options |-> own.options,
                     own_last_valid_options |-> own.last_valid_options,
                     own_last_search_value |-> own.last_search_value]
               ELSE [session EXCEPT !.called = TRUE, !.id = s,
                                    !.search_value = search_value,
                                    !.selected_value = selected_value,
                                    !.options = out.options]
        /\ UNCHANGED <<transcript_annotation, POLARS_AVAILABLE, ALL_GENES,
                       GENE_INDEX_LOADING, SEARCH_RESULTS_CACHE, thread, caller>>
        /\ UNCHANGED dataVars
        /\ UNCHANGED orderVars
        /\ UNCHANGED tableVars

Init ==
    /\ transcript_annotation \in Tables
    /\ POLARS_AVAILABLE \in BOOLEAN
    /\ ALL_GENES = <<>>
    /\ GENE_INDEX_LOADED = FALSE
    /\ GENE_INDEX_LOADING = FALSE
    /\ GENE_INFO_CACHE = {}
    /\ MATRIX_DATA_CACHE = {}
    /\ SEARCH_RESULTS_CACHE = {}
    /\ thread = SetToBag({NewThread})
    /\ caller = IdleCaller
    /\ lastCall = NoCall
    /\ returned = {}
    /\ ordering = NoOrdering
    /\ dropdown = NoDropdown
    /\ last_valid_options = <<>>
    /\ last_search_value = NoneArg
    /\ session = NoSession

Loader ==
    \E th \in BagToSet(thread) :
        \/ LoaderSetLoading(th)
        \/ LoaderQuery(th)
        \/ LoaderQueryFails(th)
        \/ LoaderPublish(th)
        \/ LoaderSetLoaded(th)
        \/ LoaderExcept(th)
        \/ LoaderFinally(th)

Search ==
    \/ \E arg \in QueryArgs, previous_search \in PreviousSearches : SearchBegin(arg, previous_search)
    \/ LoadCheck
    \/ LoadWait
    \/ SyncQuery
    \/ SyncQueryFails
    \/ SyncSetLoaded
    \/ SearchFinish

Retrieve ==
    \/ \E a \in DataArgs, failAt \in FailPoints, fbFails \in BOOLEAN :
         GetGeneDataCall(a, failAt, fbFails)
    \/ \E t \in {UT, <<>>}, g \in {ENSG1, ENSG00, <<>>}, o \in ViewOutcomes :
         UpdateMatrixContent(t, g, o)

\* the gene index and the search
NextIndex == StartAsync \/ Loader \/ Search \/ ClearCache

InitIndex == Init /\ POLARS_AVAILABLE

SpecIndex == InitIndex /\ [][NextIndex]_vars

\* the program as it runs between import and shutdown: the loader thread
\* started at import and the request handlers.  The interpreter schedules
\* every thread that can take a step; the steps of the loader that wait for
\* nothing but the scheduler are all its steps except the database query
LoaderStep ==
    \E th \in BagToSet(thread) :
        \/ LoaderSetLoading(th)
        \/ LoaderPublish(th)
        \/ LoaderSetLoaded(th)
        \/ LoaderExcept(th)
        \/ LoaderFinally(th)

\* a caller in the busy-wait polls the flag every 0.1 s
NextLive == Loader \/ Search

SpecLive == InitIndex /\ [][NextLive]_vars /\ WF_vars(LoaderStep) /\ WF_vars(LoadWait)

\* the background load and clear_cache alone: no request is being served
NextClear == StartAsync \/ Loader \/ ClearCache

SpecClear == InitIndex /\ [][NextClear]_vars

\* shutdown: cleanup() runs clear_cache while the load started at import may
\* be in flight and after requests for one gene have been served
FetchOne ==
    \E failAt \in FailPoints, fbFails \in BOOLEAN :
        GetGeneDataCall(Args(ENSG1, UT, TRUE, MAX_ROWS), failAt, fbFails)

NextShutdown == Loader \/ FetchOne \/ ClearCache

SpecShutdown == InitIndex /\ [][NextShutdown]_vars

\* the retrieval service and its caches
NextData == Retrieve \/ ClearCache

SpecData == Init /\ [][NextData]_vars

\* the transcript ordering
Order ==
    \/ \E annotation_df \in AnnotationFrames, expression_df \in ExpressionFrames,
          sel \in Selections :
           OrderBegin(annotation_df, expression_df, sel[1], sel[2])
    \/ \E stable \in BOOLEAN \X BOOLEAN : OrderReturn(stable)

NextOrder == Order

InitOrder == Init /\ transcript_annotation = <<>>

SpecOrder == InitOrder /\ [][NextOrder]_vars

\* the table discovery
Discover ==
    \E catalog \in Catalogs, fails \in BOOLEAN : GetMatrixDropdownOptions(catalog, fails)

NextTables == Discover

InitTables == Init /\ transcript_annotation = <<>>

SpecTables == InitTables /\ [][NextTables]_vars

\* the search dropdown of tab 2, used by the sessions while the load started
\* at import runs
UpdateOptions ==
    \E s \in Sessions, search_value \in SearchValues, selected_value \in SelectedValues :
        \/ /\ ~Falsy(selected_value) /\ Falsy(search_value)
           /\ \E lookup \in GeneLookups(transcript_annotation, selected_value) :
                  UpdateSearch(s, search_value, selected_value, lookup, <<>>, FALSE)
        \/ /\ ~(~Falsy(selected_value) /\ Falsy(search_value))
           /\ ~ReachesSearch(search_value, selected_value)
           /\ UpdateSearch(s, search_value, selected_value, NoRow, <<>>, FALSE)
        \/ /\ ReachesSearch(search_value, selected_value)
           /\ \E results \in SearchResults(ALL_GENES, transcript_annotation, search_value.text),
                 sync \in BOOLEAN :
                  UpdateSearch(s, search_value, selected_value, NoRow, results, sync)

NextTab2 == Loader \/ UpdateOptions

InitTab2 == InitIndex /\ transcript_annotation = TablePair

SpecTab2 == InitTab2 /\ [][NextTab2]_vars

Next == StartAsync \/ Loader \/ Search \/ Retrieve \/ ClearCache \/ Order \/ Discover \/ UpdateOptions

Spec == Init /\ [][Next]_vars

----------------------------------------------------------------------------
(* Properties of search_genes *)

\* the gene name of an option, read back from its label "name (id)"
NameOf(opt) == SubSeq(opt.label, 1, Len(opt.label) - Len(opt.value) - 3)

\* the tier of an option for the lower-cased query q: 1 exact, 2 prefix only,
\* 3 substring only, 0 when the option matches in none of these ways
TierOf(opt, q) ==
    LET id == Lower(opt.value)
        name == Lower(NameOf(opt))
    IN  IF id = q \/ name = q THEN 1
        ELSE IF StartsWith(id, q) \/ StartsWith(name, q) THEN 2
        ELSE IF Contains(id, q) \/ Contains(name, q) THEN 3
        ELSE 0

Served == caller.pc = "idle" /\ caller.path \in {"memory", "database", "dberror"}

\* C1: whatever the state of the gene index and whichever path serves the
\* query (in-memory index, database fallback, failed fallback, empty query),
\* search_genes returns at most 10 entries.
C1_AtMostTenResults == Len(caller.result) <= MAX_RESULTS

\* the fallback cut a result of more than 10 matching rows down to 10
C1_Witness ==
    /\ caller.pc = "idle" /\ caller.path = "database"
    /\ Len(caller.result) = MAX_RESULTS
    /\ Len(transcript_annotation) > MAX_RESULTS

\* C2: in the returned list every entry that matches the lower-cased query
\* exactly precedes every entry that matches by prefix only, which precedes
\* every entry that matches by substring only, on both paths.
C2_TierOrder ==
    Served =>
        \A i, j \in 1..Len(caller.result) :
            LET ti == TierOf(caller.result[i], Lower(caller.arg.text))
                tj == TierOf(caller.result[j], Lower(caller.arg.text))
            IN  (i < j /\ ti # 0 /\ tj # 0) => ti <= tj

\* C3: no two entries of the returned list have the same value (gene id).
C3_UniqueValues ==
    Served =>
        \A i, j \in 1..Len(caller.result) :
            i # j => caller.result[i].value # caller.result[j].value

----------------------------------------------------------------------------
(* Properties of the gene index loader *)

\* C5: at most one background load of the gene index is running at any time.
C5_OneBackgroundLoad == BagCardinality(thread) <= 1

\* C6: when the synchronous load of _load_gene_index succeeds, the gene list
\* then holds the deduplicated rows read from the annotation table and the
\* loaded flag is true.
C6_SyncLoadPublishes ==
    [][SyncSetLoaded =>
          /\ GENE_INDEX_LOADED'
          /\ \E scan \in ScanOrders(transcript_annotation) :
                ALL_GENES' = GeneList(IndexQuery(scan))]_vars

----------------------------------------------------------------------------
(* Properties of get_gene_data_with_metadata *)

IsCall == lastCall.op \in {"get", "view"} /\ lastCall.view.kind \in {"none", "content", "error"}

\* C4: a call for a gene id without a row in the annotation table raises,
\* returns no frame and stores no entry in the result cache.
C4_NotFoundRaises ==
    (IsCall /\ lastCall.tryError.kind = "not_found") =>
        /\ lastCall.raised
        /\ lastCall.result = NoFrame
        /\ ~lastCall.changed

\* C7: a call whose arguments already returned a frame since the last
\* clear_cache returns that same frame from the cache and issues no query.
C7_RepeatCallHitsCache ==
    (IsCall /\ lastCall.prev # NoFrame) =>
        /\ ~lastCall.raised
        /\ lastCall.result = lastCall.prev
        /\ lastCall.queries = <<>>

\* a second call with the same arguments was answered
C7_Witness ==
    /\ lastCall.op = "get" /\ lastCall.prev # NoFrame
    /\ lastCall.hit /\ lastCall.result = lastCall.prev

JoinFailed == IsCall /\ ~lastCall.hit /\ lastCall.tryError.kind # "none"

\* C8 as stated: when the joined query fails and the unjoined query succeeds,
\* the result has only the expression table's columns and the caller gets the
\* "no metadata join" marker.
C8_FallbackCarriesMarker ==
    (lastCall.op = "view" /\ JoinFailed /\ ~lastCall.raised) =>
        /\ lastCall.result.cols = GeneCols(lastCall.args.table)
        /\ lastCall.view.warning = NO_JOIN_WARNING

\* C8 amended: when the joined query fails and the unjoined query succeeds,
\* the result is the bare unjoined frame (only the expression table's
\* columns, no marker); update_matrix_content then issues no direct data query
\* of its own, shows no "no metadata join" warning and shows its "could not join"
\* note exactly when none of its metadata column names is in the frame. The
\* "no metadata join" warning appears exactly when get_gene_data_with_metadata
\* raised and the callback's own direct query succeeded.
C8_FallbackIsBareFrame ==
    /\ (JoinFailed /\ ~lastCall.raised) =>
          /\ lastCall.result = FallbackFrame(lastCall.args, POLARS_AVAILABLE)
          /\ lastCall.result.cols = GeneCols(lastCall.args.table)
          /\ lastCall.op = "view" =>
                /\ lastCall.view.warning = "none"
                /\ lastCall.view.direct = 0
                /\ lastCall.view.note = ~HasMetadata(lastCall.result)
    /\ lastCall.view.warning = NO_JOIN_WARNING <=>
          (lastCall.op = "view" /\ lastCall.raised /\ lastCall.view.kind = "content")

\* the callback shows a frame that came from the unjoined query
C8_Witness ==
    /\ lastCall.op = "view" /\ lastCall.tryError = DbError("join")
    /\ ~lastCall.raised /\ lastCall.view.kind = "content"
    /\ lastCall.view.note /\ lastCall.view.warning = "none"

\* the number of times the query x was issued
CountOf(queries, x) == Cardinality({i \in 1..Len(queries) : queries[i] = x})

\* C9: a call issues the unjoined query at most once and the joined query at
\* most once; when both fail it raises one error that carries the original
\* error and the fallback error, and the unjoined query is its last query.
C9_OneFallbackAttempt ==
    IsCall =>
        /\ CountOf(lastCall.queries, "fallback") <= 1
        /\ CountOf(lastCall.queries, "join") <= 1
        /\ lastCall.raised =>
              /\ lastCall.tryError.kind # "none"
              /\ lastCall.error = CombinedError(lastCall.tryError, DbError("fallback"))
              /\ CountOf(lastCall.queries, "fallback") = 1
              /\ lastCall.queries[Len(lastCall.queries)] = "fallback"

\* the joined query failed, the unjoined query failed, the call raised
C9_Witness ==
    /\ lastCall.op = "get" /\ lastCall.raised
    /\ lastCall.tryError = DbError("join")
    /\ lastCall.queries = <<"exists", "gene_cols", "meta_cols", "join", "fallback">>

\* the arguments the callers pass
CallArgs == DataArgs \cup {Args(g, UT, TRUE, MAX_ROWS) : g \in {ENSG1, ENSG00}}

\* C10: every entry of the result cache is the frame of a joined or unjoined
\* query that succeeded for arguments with the entry's key, and a call that
\* raises leaves the result cache as it found it.
C10_FailuresNotCached ==
    /\ \A e \in MATRIX_DATA_CACHE :
          \E a \in CallArgs :
              /\ CacheKey(a) = e[1]
              /\ e[2] \in {JoinFrame(a, POLARS_AVAILABLE), FallbackFrame(a, POLARS_AVAILABLE)}
    /\ (IsCall /\ lastCall.raised) => ~lastCall.changed

\* a call raised while the result cache held entries
C10_Witness ==
    /\ lastCall.op = "get" /\ lastCall.raised
    /\ MATRIX_DATA_CACHE # {}


----------------------------------------------------------------------------
(* Properties of the gene index after a failed load *)

Unloaded == ~GENE_INDEX_LOADED /\ ~GENE_INDEX_LOADING /\ ALL_GENES = <<>>

\* C11: when the database query of a gene-index load has failed, the load
\* ends with the index unloaded (loaded flag false, loading flag false, gene
\* list empty), and a search_genes call that finds the index unloaded enters
\* _load_gene_index for a new attempt.
C11_FailedLoadUnloads ==
    [][/\ (\E th \in BagToSet(thread) : th.pc = "failed" /\ LoaderFinally(th))
            => Unloaded'
       /\ SyncQueryFails => Unloaded'
       /\ (\E arg \in QueryArgs :
              /\ arg.kind = "str" /\ arg.text # <<>>
              /\ ~GENE_INDEX_LOADED
              /\ \E previous_search \in PreviousSearches : SearchBegin(arg, previous_search))
            => caller'.pc = "load"]_vars

\* C12: in every reachable state the gene list holds at most one entry per
\* gene id, and the entry of a gene id that has several names in the
\* annotation table carries the name that comes first in the order of the
\* query (ORDER BY gene_name).
C12_OneEntryPerGeneId ==
    /\ \A i, j \in 1..Len(ALL_GENES) : i # j => ALL_GENES[i][1] # ALL_GENES[j][1]
    /\ \A i \in 1..Len(ALL_GENES) :
          /\ ALL_GENES[i] \in SeqRange(transcript_annotation)
          /\ \A row \in SeqRange(transcript_annotation) :
                row[1] = ALL_GENES[i][1] => ~StrLess(row[2], ALL_GENES[i][2])

\* the table gives ENSG1 the names APOE and AP; the list keeps AP
C12_Witness ==
    /\ <<ENSG1, APOE>> \in SeqRange(transcript_annotation)
    /\ <<ENSG1, AP>> \in SeqRange(ALL_GENES)
    /\ GENE_INDEX_LOADED

----------------------------------------------------------------------------
(* Properties of search_genes: empty queries, ranking, database failures *)

\* C13: a search_genes call with None or with the empty string returns the
\* empty list at once: it does not raise, does not enter _load_gene_index,
\* issues no database query and leaves the gene index and its loader
\* threads as they are.
C13_EmptyQueryReturnsEmpty ==
    [][(\E arg \in QueryArgs :
           /\ arg.kind = "none" \/ Len(arg.text) = 0
           /\ \E previous_search \in PreviousSearches : SearchBegin(arg, previous_search))
         => /\ caller'.pc = "idle"
            /\ caller'.result = <<>>
            /\ caller'.dbq = 0
            /\ caller'.load = "none"
            /\ UNCHANGED <<ALL_GENES, GENE_INDEX_LOADED, GENE_INDEX_LOADING, thread>>]_vars

\* search_genes("") has returned while the index is not loaded
C13_Witness ==
    /\ caller.pc = "idle" /\ caller.path = "empty"
    /\ caller.arg = StrArg(<<>>)
    /\ ~GENE_INDEX_LOADED

IndexPair == << <<ENSG1, APOE>>, <<ENSG2, APOER2>> >>

\* C14: with the index [("ENSG1","APOE"), ("ENSG2","APOER2")] the call
\* search_genes("apoe") returns both genes, ENSG1 (exact match of the
\* lower-cased name) before ENSG2 (prefix match).
C14_ExactBeforePrefix ==
    [][(/\ ALL_GENES = IndexPair
        /\ caller.arg.text = <<"a", "p", "o", "e">>
        /\ SearchFinish)
         => /\ Len(caller'.result) = 2
            /\ caller'.result[1].value = ENSG1
            /\ caller'.result[2].value = ENSG2]_vars

\* the call has been served from the index of the example
C14_Witness ==
    /\ caller.pc = "idle" /\ caller.path = "memory"
    /\ caller.arg.text = <<"a", "p", "o", "e">>
    /\ ALL_GENES = IndexPair
    /\ caller.result = <<Option(<<ENSG1, APOE>>), Option(<<ENSG2, APOER2>>)>>

\* C20: search_genes never ends by raising because of a database failure:
\* a call whose index load failed and whose fallback query failed as well
\* returns the empty list.
C20_DatabaseFailureGivesEmpty ==
    /\ caller.pc # "raised"
    /\ (caller.pc = "idle" /\ caller.load = "failed" /\ caller.path = "dberror")
          => caller.result = <<>>

\* both queries of one call have failed and the call has returned
C20_Witness ==
    /\ caller.pc = "idle" /\ caller.load = "failed" /\ caller.path = "dberror"
    /\ caller.dbq = 2
    /\ caller.result = <<>>

----------------------------------------------------------------------------
(* Properties of the caches *)

KeysOf(cache) == {e[1] : e \in cache}

\* C19: no step removes single entries from the result cache or from the
\* gene-info cache: every step either keeps all keys of both caches (and may
\* add keys), or is clear_cache(), which empties both.
C19_CachesOnlyGrow ==
    [][\/ /\ KeysOf(MATRIX_DATA_CACHE) \subseteq KeysOf(MATRIX_DATA_CACHE')
          /\ GENE_INFO_CACHE \subseteq GENE_INFO_CACHE'
       \/ /\ ClearCache
          /\ MATRIX_DATA_CACHE' = {}
          /\ GENE_INFO_CACHE' = {}]_vars

\* the result cache has grown to several keys since the last clear_cache()
C19_Witness ==
    /\ Cardinality(KeysOf(MATRIX_DATA_CACHE)) >= 2
    /\ GENE_INFO_CACHE # {}
    /\ lastCall.op = "get" /\ ~lastCall.hit /\ ~lastCall.raised

----------------------------------------------------------------------------
(* Properties of order_transcripts_by_expression *)

\* the recorded call has ended and went past the two guards of the function
\* (Polars available, expression column present)
Ordered ==
    /\ ordering.called
    /\ POLARS_AVAILABLE
    /\ EXPRESSION_COLUMN \in Columns(ordering.expression_df)

\* the transcripts present in both input frames
CommonTranscripts ==
    TranscriptIds(ordering.annotation_df) \cap TranscriptIds(ordering.expression_df)

\* the total expression of a transcript, summed over the input expression frame
TotalOf(t) == SumColumn(ordering.expression_df.rows, EXPRESSION_COLUMN, t)

\* the transcript ids of a frame in the order of their first row
TranscriptOrder(df) ==
    DistinctRows([i \in 1..Len(df.rows) |-> df.rows[i][TRANSCRIPT_ID]], {}, 1)

TiedExample ==
    /\ Ordered
    /\ ordering.annotation_df = AnnotationT123
    /\ ordering.expression_df = Expression50
    /\ ordering.top_n = IntValue(2)

\* C16 as stated: in the example the call returns the transcripts T1 and T2,
\* and both returned frames list T2 before T1.
C16_TiedPairT2First ==
    TiedExample =>
        /\ TranscriptOrder(ordering.expression) = <<"T2", "T1">>
        /\ TranscriptOrder(ordering.annotation) = <<"T2", "T1">>

\* C16, amended: in the example the call returns the transcripts T1 and T2,
\* and both returned frames list T1 before T2 (equal totals are ordered by
\* ascending transcript id).
C16_TiedPairT1First ==
    TiedExample =>
        /\ TranscriptOrder(ordering.expression) = <<"T1", "T2">>
        /\ TranscriptOrder(ordering.annotation) = <<"T1", "T2">>

C16_Witness ==
    /\ TiedExample
    /\ TranscriptIds(ordering.expression) = {"T1", "T2"}
    /\ ordering.expression.rows[1][TRANSCRIPT_ID] = "T1"

\* r1 may stand before r2: ascending total expression, then ascending id
InOrder(t1, t2) ==
    \/ TotalOf(t1) < TotalOf(t2)
    \/ TotalOf(t1) = TotalOf(t2) /\ IdRank(t1) <= IdRank(t2)

\* t1 comes before t2 in the selection order: descending total expression,
\* then ascending id
SelectedBefore(t1, t2) ==
    \/ TotalOf(t1) > TotalOf(t2)
    \/ TotalOf(t1) = TotalOf(t2) /\ IdRank(t1) < IdRank(t2)

RowsInOrder(df) ==
    \A i, j \in 1..Len(df.rows) :
        i < j => InOrder(df.rows[i][TRANSCRIPT_ID], df.rows[j][TRANSCRIPT_ID])

\* C17: the rows of both returned frames are in ascending order of the total
\* expression of their transcript, equal totals in ascending order of the
\* transcript id; and the transcripts selected by top_n = k are the first k
\* in descending order of total expression with the same tie-break.
C17_RowsAscendingByTotal ==
    (Ordered /\ ~ordering.raised) =>
        /\ RowsInOrder(ordering.expression)
        /\ RowsInOrder(ordering.annotation)
        /\ \A t \in TranscriptIds(ordering.expression) :
              \A u \in CommonTranscripts \ TranscriptIds(ordering.expression) :
                  (ordering.top_n.kind = "int" /\ ordering.top_n.a > 0)
                      => SelectedBefore(t, u)

\* top_n is not a valid selection for n common transcripts
InvalidTopN(top_n, n) ==
    \/ top_n.kind = "pair" /\ (top_n.a < 0 \/ top_n.a >= top_n.b \/ top_n.b > n)
    \/ top_n.kind = "int" /\ top_n.a <= 0
    \/ top_n.kind \in {"str_pair", "other"}

\* C18: for a top_n that is not a valid selection (a range with start < 0,
\* start >= end or end > N, an integer <= 0, a value of another shape or
\* element type) the call does not raise and returns all transcripts common
\* to both frames.
C18_InvalidTopNReturnsAll ==
    (Ordered /\ InvalidTopN(ordering.top_n, Cardinality(CommonTranscripts))) =>
        /\ ~ordering.raised
        /\ TranscriptIds(ordering.expression) = CommonTranscripts
        /\ TranscriptIds(ordering.annotation) = CommonTranscripts

----------------------------------------------------------------------------
(* Properties of get_matrix_dropdown_options *)

\* C21: get_matrix_dropdown_options returns exactly the entries of the
\* allow-list (Total Counts, Unique Counts, Full Length Counts, in that
\* order) whose table name equals, ignoring case, a table that the discovery
\* returned; every returned entry is an entry of the allow-list and names a
\* table of the catalog; and the result is empty when the discovery fails.
C21_DropdownIsAllowListFilter ==
    dropdown.called =>
        /\ dropdown.options =
              SelectSeq(ORDERED_OPTIONS,
                        LAMBDA opt : \E t \in SeqRange(dropdown.matrix_tables) :
                                        Lower(t) = Lower(opt.value))
        /\ \A i \in 1..Len(dropdown.options) :
              /\ dropdown.options[i] \in SeqRange(ORDERED_OPTIONS)
              /\ \E r \in SeqRange(dropdown.catalog) :
                    Lower(r[2]) = Lower(dropdown.options[i].value)
        /\ dropdown.failed => dropdown.options = <<>>

\* all three entries are returned, Unique Counts for a table whose name is
\* stored in mixed case, and the other tables of the catalog are left out
C21_Witness ==
    /\ dropdown.called /\ ~dropdown.failed
    /\ dropdown.catalog = AllTables
    /\ Len(dropdown.matrix_tables) = 4
    /\ dropdown.options = ORDERED_OPTIONS

----------------------------------------------------------------------------
(* Properties of the loading flag *)

\* the loader threads that have begun to run (they are past the assignment
\* GENE_INDEX_LOADING = True and have not ended)
RunningLoaders == {th \in BagToSet(thread) : th.pc # "start"}

\* the caller is inside the synchronous load of _load_gene_index
SyncLoadRunning == caller.pc \in {"sync_query", "sync_loaded"}

\* C22: the loading flag excludes duplicate loads: while a load of the gene
\* index (background or synchronous) is in flight the loading flag is true,
\* and no two loads are in flight at the same time.
C22_LoadingFlagExcludes ==
    /\ (RunningLoaders # {} \/ SyncLoadRunning) => GENE_INDEX_LOADING
    /\ Cardinality(RunningLoaders) <= 1
    /\ \A th \in RunningLoaders : CopiesIn(th, thread) = 1
    /\ ~(SyncLoadRunning /\ RunningLoaders # {})

\* the database query of the background load does not hang forever
QueryTerminates == []<>(\A th \in BagToSet(thread) : th.pc # "query")

WaitersReturn == (caller.pc = "wait") ~> (caller.pc # "wait")

IndexGetsLoaded ==
    (\E th \in BagToSet(thread) : th.pc = "publish")
        ~> (GENE_INDEX_LOADED /\ ~GENE_INDEX_LOADING)

\* C23: if the query of the background load terminates, a caller that spins in
\* the busy-wait of _load_gene_index eventually leaves it, whether the query
\* succeeded or failed; and once the query has succeeded (clear_cache not
\* being called) the index eventually is loaded with the loading flag false.
C23_WaitersReturn == QueryTerminates => (WaitersReturn /\ IndexGetsLoaded)

\* a search that waited for the background load has returned
C23_Witness ==
    /\ caller.pc = "idle" /\ caller.load = "waited"
    /\ caller.path \in {"memory", "database", "dberror"}
    /\ ~GENE_INDEX_LOADING
    /\ thread = EmptyBag

----------------------------------------------------------------------------
(* Properties of the search over the index *)

\* the tier of a gene for the lower-cased query q
RowTier(row, q) == TierOf(Option(row), q)

\* the genes of one tier, in index order, over the whole index
TierRows(genes, q, k) == SelectSeq(genes, LAMBDA row : RowTier(row, q) = k)

\* C28: with a non-empty index the search issues no database query and
\* returns the first 10 of (exact ++ prefix ++ contains), each tier in index
\* order over the whole index (so leaving the scan at 10 exact matches
\* changes nothing); the database fallback runs only with an empty index.
C28_MemorySearchIsTierOrder ==
    [][(caller.pc = "search" /\ SearchFinish) =>
          LET q == Lower(caller.arg.text)
              all == TierRows(ALL_GENES, q, 1) \o TierRows(ALL_GENES, q, 2)
                        \o TierRows(ALL_GENES, q, 3)
          IN  IF ALL_GENES # <<>>
              THEN /\ caller'.path = "memory"
                   /\ caller'.dbq = caller.dbq
                   /\ caller'.result = Options(Take(all, MAX_RESULTS))
              ELSE caller'.path \in {"database", "dberror"}]_vars

\* a search over an index with more than 10 exact matches has been served
C28_Witness ==
    /\ caller.pc = "idle" /\ caller.path = "memory"
    /\ Len(caller.result) = MAX_RESULTS
    /\ Len(TierRows(ALL_GENES, Lower(caller.arg.text), 1)) > MAX_RESULTS

\* the rank of an option for the lower-cased query q: 1 exact id, 2 exact
\* name, 3 id prefix, 4 name prefix, 5 contains, 0 no match
RankOf(opt, q) ==
    LET id == Lower(opt.value)
        name == Lower(NameOf(opt))
    IN  IF id = q THEN 1
        ELSE IF name = q THEN 2
        ELSE IF StartsWith(id, q) THEN 3
        ELSE IF StartsWith(name, q) THEN 4
        ELSE IF Contains(id, q) \/ Contains(name, q) THEN 5
        ELSE 0

\* a result of the ranked query: by rank, by gene name within a rank
RankedResult ==
    \A i, j \in 1..Len(caller.result) :
        LET q == Lower(caller.arg.text)
            ri == RankOf(caller.result[i], q)
            rj == RankOf(caller.result[j], q)
        IN  /\ ri # 0
            /\ i < j => ri <= rj
            /\ (i < j /\ ri = rj) =>
                   ~StrLess(NameOf(caller.result[j]), NameOf(caller.result[i]))

\* a result of the short query: every gene starts with the query
PrefixResult ==
    \A i \in 1..Len(caller.result) :
        RankOf(caller.result[i], Lower(caller.arg.text)) \in 1..4

\* C29: the database fallback returns at most 10 genes; for a query of 3 or
\* more characters they are ordered by rank and by gene name within a rank,
\* for a shorter query every one of them has an id or a name that starts
\* with the query.
C29_FallbackRanking ==
    (caller.pc = "idle" /\ caller.path = "database") =>
        /\ Len(caller.result) <= MAX_RESULTS
        /\ IF Len(caller.arg.text) >= SHORT_QUERY_LEN THEN RankedResult ELSE PrefixResult

\* the shared state a search is not to touch
SharedState ==
    <<ALL_GENES, GENE_INDEX_LOADED, GENE_INDEX_LOADING, GENE_INFO_CACHE,
      MATRIX_DATA_CACHE, SEARCH_RESULTS_CACHE>>

\* C30: search_genes carries no state between calls: previous_search does
\* not change what a call does, the result is one that the gene list, the
\* table and the query alone determine, and a call that finds the index
\* loaded leaves the gene list, both flags and all caches as they are.
C30_SearchIsStateless ==
    [][/\ caller.pc = "idle" =>
             \A arg \in QueryArgs, previous_search \in PreviousSearches :
                 SearchBegin(arg, previous_search) <=> SearchBegin(arg, NoneArg)
       /\ (caller.pc = "search" /\ SearchFinish) =>
             caller'.result \in
                 SearchResults(ALL_GENES, transcript_annotation, caller.arg.text)
       /\ (caller.load = "none" /\ caller'.load = "none" /\ caller' # caller) =>
             UNCHANGED SharedState]_vars

\* a call that found the index loaded has been served from it
C30_Witness ==
    /\ caller.pc = "idle" /\ caller.path = "memory" /\ caller.load = "none"
    /\ GENE_INDEX_LOADED
    /\ caller.result # <<>>

----------------------------------------------------------------------------
(* Properties of the result cache *)

\* C25: the result cache holds joined frames only: a call that returns the
\* frame of the unjoined query stores nothing, and a later call with the
\* same arguments is not answered from the cache.
C25_FallbackNotCached ==
    /\ \A e \in MATRIX_DATA_CACHE : HasMetadata(e[2])
    /\ (IsCall /\ JoinFailed /\ ~lastCall.raised) => ~lastCall.changed
    /\ (IsCall /\ lastCall.prev # NoFrame /\ ~HasMetadata(lastCall.prev)) => ~lastCall.hit

\* C26: a call answered from the result cache returns a frame that was
\* produced for exactly the requested (gene_id, table_name, limit,
\* with_polars), also when gene ids or table names contain an underscore.
C26_HitIsForRequestedTuple ==
    (IsCall /\ lastCall.hit) =>
        lastCall.result \in {JoinFrame(lastCall.args, POLARS_AVAILABLE),
                             FallbackFrame(lastCall.args, POLARS_AVAILABLE)}

\* C27: when get_gene_data_with_metadata raises its combined error inside
\* update_matrix_content, the callback issues no further data query and
\* reports the error.
C27_CallbackDoesNotRetry ==
    (lastCall.op = "view" /\ lastCall.raised) =>
        /\ lastCall.view.direct = 0
        /\ lastCall.view.kind = "error"

----------------------------------------------------------------------------
(* Properties of the gene index under clear_cache *)

\* the gene lists a successful load of the annotation table produces
LoadResults == {GeneList(IndexQuery(scan)) : scan \in ScanOrders(transcript_annotation)}

\* C24: whenever the loaded flag is true, the gene list holds the result of a
\* successful load of the annotation table (never an empty list while the
\* table has genes), also when clear_cache runs during a load.
C24_LoadedFlagMeansLoadedList == GENE_INDEX_LOADED => ALL_GENES \in LoadResults

\* C31: clear_cache empties the gene-info cache, the result cache, the
\* search-result cache and the gene list, sets the loaded flag to false and
\* leaves the loading flag as it is.
C31_ClearCacheEffect ==
    [][ClearCache =>
          /\ GENE_INFO_CACHE' = {}
          /\ MATRIX_DATA_CACHE' = {}
          /\ SEARCH_RESULTS_CACHE' = {}
          /\ ALL_GENES' = <<>>
          /\ ~GENE_INDEX_LOADED'
          /\ GENE_INDEX_LOADING' = GENE_INDEX_LOADING]_vars

\* clear_cache has run after a call filled the caches and after the loader
\* set the loaded flag, while the loader had not reset the loading flag
C31_Witness ==
    /\ lastCall.op = "get" /\ lastCall.changed
    /\ MATRIX_DATA_CACHE = {} /\ GENE_INFO_CACHE = {}
    /\ \E th \in BagToSet(thread) : th.pc = "finally"
    /\ ALL_GENES = <<>> /\ ~GENE_INDEX_LOADED /\ GENE_INDEX_LOADING

\* C32 as stated: the loaded flag and the loading flag are never true at the
\* same time.
C32_FlagsNeverBothTrue == ~(GENE_INDEX_LOADED /\ GENE_INDEX_LOADING)

\* C32 amended: the loading flag is true only while a background load that
\* has set it has not ended, so both flags are true only during such a load
\* and with no load running the state is unloaded or loaded.
C32_LoadingOnlyDuringLoad == GENE_INDEX_LOADING => RunningLoaders # {}

\* the loader has set the loaded flag and has not reached its finally block
C32_Witness ==
    /\ GENE_INDEX_LOADED /\ GENE_INDEX_LOADING
    /\ \E th \in BagToSet(thread) : th.pc = "finally"

----------------------------------------------------------------------------
(* Properties of order_transcripts_by_expression: selection and columns *)

\* the first n transcripts of the selection order (total expression
\* descending, transcript id ascending) among the common transcripts
FirstInOrder(n) ==
    {t \in CommonTranscripts :
        Cardinality({u \in CommonTranscripts : SelectedBefore(u, t)}) < n}

ReturnedIds == TranscriptIds(ordering.expression) \cup TranscriptIds(ordering.annotation)

\* C34 as stated: every transcript id in either returned frame is present in
\* both input frames, whatever the call.
C34_ReturnedIdsAreCommon ==
    (ordering.called /\ ~ordering.raised) => ReturnedIds \subseteq CommonTranscripts

\* C34 amended: when Polars is available and the expression frame has the
\* expression column, every transcript id in either returned frame is
\* present in both input frames, and the call raises for no other reason
\* than a top_n whose two elements cannot be compared with integers.
C34_ReturnedIdsAreCommonWhenOrdered ==
    Ordered =>
        /\ ~ordering.raised => ReturnedIds \subseteq CommonTranscripts
        /\ ordering.raised => ordering.top_n.kind = "str_pair"

\* T4 of the annotation has no expression row and T5 of the expression frame
\* has no annotation: the call returned T1, T2, T3
C34_Witness ==
    /\ Ordered /\ ~ordering.raised
    /\ ordering.annotation_df = AnnotationT1234
    /\ ordering.expression_df = ExpressionTies
    /\ ordering.top_n = NoneValue /\ ordering.range_slice = NoneValue
    /\ ReturnedIds = {"T1", "T2", "T3"}

\* C35: each returned frame has exactly the columns of the corresponding
\* input frame, also when the input has a total_expression column of its own.
C35_ColumnsPreserved ==
    (ordering.called /\ ~ordering.raised) =>
        /\ ordering.expression.cols = ordering.expression_df.cols
        /\ ordering.annotation.cols = ordering.annotation_df.cols

----------------------------------------------------------------------------
(* Properties of the gene-info cache *)

\* C36: the gene-info cache holds only gene ids that have a row in the
\* annotation table (a lookup that finds no row adds none), and a call for a
\* gene id that is in the cache issues no existence query.
C36_GeneInfoCacheHoldsFoundIds ==
    [][/\ \A g \in GENE_INFO_CACHE' : InAnnotation(transcript_annotation, g)
       /\ (lastCall'.args.gene \in GENE_INFO_CACHE /\ Retrieve) =>
             \A i \in 1..Len(lastCall'.queries) : lastCall'.queries[i] # "exists"]_vars

\* a call for a cached gene id went to the database without the existence
\* query, and a call for an id without a row left the cache without it
C36_Witness ==
    /\ lastCall.op = "get" /\ ~lastCall.hit
    /\ lastCall.args.gene \in GENE_INFO_CACHE
    /\ lastCall.queries # <<>> /\ lastCall.queries[1] = "gene_cols"
    /\ ENSG1_U \notin GENE_INFO_CACHE
    /\ \E e \in returned : e[1].gene = ENSG1_U

----------------------------------------------------------------------------
(* Properties of update_search_options *)

\* C37: when a gene is selected and the search text is empty, the options
\* returned by update_search_options contain an option whose value is the
\* selected gene id, also when the id is not among the last search results or
\* is not found in the annotation table
C37_SelectionStaysInOptions ==
    (session.called /\ ~Falsy(session.selected_value) /\ Falsy(session.search_value))
        => SelectedInOptions(session.options, session.selected_value)

\* C38: the options returned to one session are the options it would get
\* from the same database were it the only session: the calls of another
\* session never change them
C38_OptionsDependOnOwnSession ==
    (session.called /\ session.id = Observed) => session.options = session.own_options

----------------------------------------------------------------------------
(* Properties of the search-result cache *)

\* C39: SEARCH_RESULTS_CACHE is empty in every reachable state: no operation
\* writes an entry to it, whatever has been searched, loaded or cleared
C39_SearchCacheStaysEmpty == SEARCH_RESULTS_CACHE = {}

\* a search has been answered from the database with results, and nothing
\* was stored
C39_Witness ==
    /\ caller.pc = "idle" /\ caller.path = "database"
    /\ caller.result # <<>>
    /\ SEARCH_RESULTS_CACHE = {}

============================================================================
